---- MODULE Spec2Model ----
(***************************************************************************)
(* Connection-lifecycle core of whatsapp-bridge-v2: the state machine      *)
(* (internal/state), the Bridge that wraps it and persists its transitions *)
(* (internal/bridge, internal/store) and the tool handler that gates       *)
(* capability calls on the lifecycle state (pkg/api).                      *)
(***************************************************************************)
EXTENDS Integers, Sequences, FiniteSets, TLC

(***************************************************************************)
(* Bounds of the model.                                                    *)
(***************************************************************************)
\* transitions the Bridge performs in the specification with observers
MaxObserved == 3
\* transitions the Bridge performs in the specification of the transition log
MaxLog == 5
\* transitions the Bridge performs in the specification of the tool handler
MaxToolLog == 4
\* transitions other callers fire in the specification of Bridge.Connect
MaxLifecycle == 3
\* Bridge.Connect calls that get past their first trigger
MaxConnects == 2

\* capacity of the Bridge's event channel (100 in NewBridge)
QueueCap == 2

\* ReconnectMaxRetries of the configuration
ReconnectMaxRetries == 2

\* ScheduleReconnect calls in one behaviour
MaxTimers == 2
MaxScheduled == 4

\* transitions of the reconnect scenario in one behaviour
MaxHealthFires == 5

\* conversations in a history batch
MaxConvs == 2

\* messages in a conversation of a history batch
MaxHistMsgs == 2
MaxSnapshots == 2
MaxCounted == 2
ReconnectBaseDelay == 2
ReconnectMaxDelay == 4

\* events emitted in one behaviour
MaxEvents == 3

\* event listeners registered by OnEvent
MaxEventListeners == 2
\* largest value of the wall clock
MaxClock == 1
\* store writes that fail in one behaviour
MaxStoreFaults == 1
\* callbacks registered on the machine with OnTransition besides the Bridge's
MaxCallbacks == 1
\* listeners registered on the Bridge with OnStateChange
MaxListeners == 1
MaxDisconnects == 1
MaxBridgeEvents == 1

(***************************************************************************)
(* internal/state/states.go: State                                         *)
(***************************************************************************)
StateDisconnected == "disconnected"
StateConnecting == "connecting"
StateConnected == "connected"
StateReconnecting == "reconnecting"
StateQRPending == "qr_pending"
StateAuthenticating == "authenticating"
StateSyncing == "syncing"
StateReady == "ready"
StateLoggedOut == "logged_out"
StateSessionExpired == "session_expired"
StateTemporaryBan == "temporary_ban"
StateShuttingDown == "shutting_down"
StateFatalError == "fatal_error"

States ==
  { StateDisconnected, StateConnecting, StateConnected, StateReconnecting,
    StateQRPending, StateAuthenticating, StateSyncing, StateReady,
    StateLoggedOut, StateSessionExpired, StateTemporaryBan, StateShuttingDown,
    StateFatalError }

\* State.IsTerminal
IsTerminal(s) ==
  s \in { StateLoggedOut, StateSessionExpired, StateTemporaryBan, StateFatalError }

(***************************************************************************)
(* internal/state/triggers.go: Trigger                                     *)
(***************************************************************************)
TriggerConnect == "connect"
TriggerDisconnect == "disconnect"
TriggerQRRequired == "qr_required"
TriggerQRScanned == "qr_scanned"
TriggerAuthenticated == "authenticated"
TriggerSyncComplete == "sync_complete"
TriggerConnectionLost == "connection_lost"
TriggerReconnect == "reconnect"
TriggerReconnected == "reconnected"
TriggerSessionInvalid == "session_invalid"
TriggerBanDetected == "ban_detected"
TriggerBanLifted == "ban_lifted"
TriggerLogout == "logout"
TriggerShutdown == "shutdown"
TriggerFatalError == "fatal_error"

Triggers ==
  { TriggerConnect, TriggerDisconnect, TriggerQRRequired, TriggerQRScanned,
    TriggerAuthenticated, TriggerSyncComplete, TriggerConnectionLost,
    TriggerReconnect, TriggerReconnected, TriggerSessionInvalid,
    TriggerBanDetected, TriggerBanLifted, TriggerLogout, TriggerShutdown,
    TriggerFatalError }

(***************************************************************************)
(* internal/state/machine.go: NewMachine.  The configuration of the        *)
(* stateless machine as <<source, trigger, destination>> triples, one per  *)
(* Permit call.                                                            *)
(***************************************************************************)
\* the configuration with ban_lifted leading straight back to ready
NewMachineBanLiftedReady ==
  { <<StateDisconnected, TriggerConnect, StateConnecting>>,
    <<StateDisconnected, TriggerShutdown, StateShuttingDown>>,
    <<StateConnecting, TriggerQRRequired, StateQRPending>>,
    <<StateConnecting, TriggerAuthenticated, StateSyncing>>,
    <<StateConnecting, TriggerConnectionLost, StateReconnecting>>,
    <<StateConnecting, TriggerDisconnect, StateDisconnected>>,
    <<StateConnecting, TriggerShutdown, StateShuttingDown>>,
    <<StateConnecting, TriggerFatalError, StateFatalError>>,
    <<StateQRPending, TriggerQRScanned, StateAuthenticating>>,
    <<StateQRPending, TriggerConnectionLost, StateReconnecting>>,
    <<StateQRPending, TriggerDisconnect, StateDisconnected>>,
    <<StateQRPending, TriggerShutdown, StateShuttingDown>>,
    <<StateQRPending, TriggerFatalError, StateFatalError>>,
    <<StateAuthenticating, TriggerAuthenticated, StateSyncing>>,
    <<StateAuthenticating, TriggerSessionInvalid, StateSessionExpired>>,
    <<StateAuthenticating, TriggerConnectionLost, StateReconnecting>>,
    <<StateAuthenticating, TriggerDisconnect, StateDisconnected>>,
    <<StateAuthenticating, TriggerShutdown, StateShuttingDown>>,
    <<StateAuthenticating, TriggerFatalError, StateFatalError>>,
    <<StateSyncing, TriggerSyncComplete, StateReady>>,
    <<StateSyncing, TriggerConnectionLost, StateReconnecting>>,
    <<StateSyncing, TriggerDisconnect, StateDisconnected>>,
    <<StateSyncing, TriggerShutdown, StateShuttingDown>>,
    <<StateSyncing, TriggerFatalError, StateFatalError>>,
    <<StateReady, TriggerConnectionLost, StateReconnecting>>,
    <<StateReady, TriggerSessionInvalid, StateSessionExpired>>,
    <<StateReady, TriggerBanDetected, StateTemporaryBan>>,
    <<StateReady, TriggerLogout, StateLoggedOut>>,
    <<StateReady, TriggerDisconnect, StateDisconnected>>,
    <<StateReady, TriggerShutdown, StateShuttingDown>>,
    <<StateReady, TriggerFatalError, StateFatalError>>,
    <<StateReconnecting, TriggerReconnected, StateReady>>,
    <<StateReconnecting, TriggerQRRequired, StateQRPending>>,
    <<StateReconnecting, TriggerSessionInvalid, StateSessionExpired>>,
    <<StateReconnecting, TriggerDisconnect, StateDisconnected>>,
    <<StateReconnecting, TriggerShutdown, StateShuttingDown>>,
    <<StateReconnecting, TriggerFatalError, StateFatalError>>,
    <<StateTemporaryBan, TriggerBanLifted, StateReady>>,
    <<StateTemporaryBan, TriggerDisconnect, StateDisconnected>>,
    <<StateTemporaryBan, TriggerShutdown, StateShuttingDown>>,
    <<StateTemporaryBan, TriggerFatalError, StateFatalError>>,
    <<StateLoggedOut, TriggerConnect, StateConnecting>>,
    <<StateLoggedOut, TriggerShutdown, StateShuttingDown>>,
    <<StateSessionExpired, TriggerConnect, StateConnecting>>,
    <<StateSessionExpired, TriggerShutdown, StateShuttingDown>>,
    <<StateFatalError, TriggerShutdown, StateShuttingDown>> }

\* the configuration with shutting_down permitting connect
NewMachineShutdownRestart ==
  ( NewMachineBanLiftedReady
      \ { <<StateTemporaryBan, TriggerBanLifted, StateReady>> } )
  \cup { <<StateTemporaryBan, TriggerBanLifted, StateReconnecting>>,
         <<StateShuttingDown, TriggerConnect, StateConnecting>> }

\* the configuration with fatal_error permitting connect
NewMachineFatalRestart ==
  ( NewMachineBanLiftedReady
      \ { <<StateTemporaryBan, TriggerBanLifted, StateReady>> } )
  \cup { <<StateTemporaryBan, TriggerBanLifted, StateReconnecting>>,
         <<StateFatalError, TriggerConnect, StateConnecting>> }

NewMachine ==
  { <<StateDisconnected, TriggerConnect, StateConnecting>>,
    <<StateDisconnected, TriggerShutdown, StateShuttingDown>>,
    <<StateConnecting, TriggerQRRequired, StateQRPending>>,
    <<StateConnecting, TriggerAuthenticated, StateSyncing>>,
    <<StateConnecting, TriggerConnectionLost, StateReconnecting>>,
    <<StateConnecting, TriggerDisconnect, StateDisconnected>>,
    <<StateConnecting, TriggerShutdown, StateShuttingDown>>,
    <<StateConnecting, TriggerFatalError, StateFatalError>>,
    <<StateQRPending, TriggerQRScanned, StateAuthenticating>>,
    <<StateQRPending, TriggerConnectionLost, StateReconnecting>>,
    <<StateQRPending, TriggerDisconnect, StateDisconnected>>,
    <<StateQRPending, TriggerShutdown, StateShuttingDown>>,
    <<StateQRPending, TriggerFatalError, StateFatalError>>,
    <<StateAuthenticating, TriggerAuthenticated, StateSyncing>>,
    <<StateAuthenticating, TriggerSessionInvalid, StateSessionExpired>>,
    <<StateAuthenticating, TriggerConnectionLost, StateReconnecting>>,
    <<StateAuthenticating, TriggerDisconnect, StateDisconnected>>,
    <<StateAuthenticating, TriggerShutdown, StateShuttingDown>>,
    <<StateAuthenticating, TriggerFatalError, StateFatalError>>,
    <<StateSyncing, TriggerSyncComplete, StateReady>>,
    <<StateSyncing, TriggerConnectionLost, StateReconnecting>>,
    <<StateSyncing, TriggerDisconnect, StateDisconnected>>,
    <<StateSyncing, TriggerShutdown, StateShuttingDown>>,
    <<StateSyncing, TriggerFatalError, StateFatalError>>,
    <<StateReady, TriggerConnectionLost, StateReconnecting>>,
    <<StateReady, TriggerSessionInvalid, StateSessionExpired>>,
    <<StateReady, TriggerBanDetected, StateTemporaryBan>>,
    <<StateReady, TriggerLogout, StateLoggedOut>>,
    <<StateReady, TriggerDisconnect, StateDisconnected>>,
    <<StateReady, TriggerShutdown, StateShuttingDown>>,
    <<StateReady, TriggerFatalError, StateFatalError>>,
    <<StateReconnecting, TriggerReconnected, StateReady>>,
    <<StateReconnecting, TriggerQRRequired, StateQRPending>>,
    <<StateReconnecting, TriggerSessionInvalid, StateSessionExpired>>,
    <<StateReconnecting, TriggerDisconnect, StateDisconnected>>,
    <<StateReconnecting, TriggerShutdown, StateShuttingDown>>,
    <<StateReconnecting, TriggerFatalError, StateFatalError>>,
    <<StateTemporaryBan, TriggerBanLifted, StateReconnecting>>,
    <<StateTemporaryBan, TriggerDisconnect, StateDisconnected>>,
    <<StateTemporaryBan, TriggerShutdown, StateShuttingDown>>,
    <<StateTemporaryBan, TriggerFatalError, StateFatalError>>,
    <<StateLoggedOut, TriggerConnect, StateConnecting>>,
    <<StateLoggedOut, TriggerShutdown, StateShuttingDown>>,
    <<StateSessionExpired, TriggerConnect, StateConnecting>>,
    <<StateSessionExpired, TriggerShutdown, StateShuttingDown>>,
    <<StateFatalError, TriggerShutdown, StateShuttingDown>> }

\* stateless CanFireCtx: some Permit of the current state names the trigger
CanFireCtx(s, t) == \E p \in NewMachine : p[1] = s /\ p[2] = t

\* the destination the matching Permit names
Destination(s, t) == (CHOOSE p \in NewMachine : p[1] = s /\ p[2] = t)[3]

\* Machine.IsReady / Bridge.IsReady, with a syncing bridge counted as ready
IsReadyOrSyncing(s) == s \in { StateReady, StateSyncing }

\* Machine.IsReady / Bridge.IsReady, on the state read
IsReady(s) == s = StateReady

(***************************************************************************)
(* pkg/api/tools.go: the tool names, and for each the handler HandleTool's *)
(* switch selects: what it calls (a Bridge method, a store repository or   *)
(* the health monitor), the error it wraps a failure of that call in,      *)
(* whether it validates required arguments first, and whether it reports   *)
(* store.ErrNotFound as NOT_FOUND.                                         *)
(***************************************************************************)
HandleToolSwitch ==
  { [ tool |-> "get_bridge_status", kind |-> "health", target |-> "health.GetStatus", wrap |-> "none",
      args |-> FALSE, notFound |-> FALSE ],
    [ tool |-> "get_connection_history", kind |-> "store", target |-> "State.GetTransitionHistory", wrap |-> "INTERNAL_ERROR",
      args |-> FALSE, notFound |-> FALSE ],
    [ tool |-> "list_chats", kind |-> "store", target |-> "Chats.List", wrap |-> "INTERNAL_ERROR",
      args |-> FALSE, notFound |-> FALSE ],
    [ tool |-> "get_chat", kind |-> "store", target |-> "Chats.GetByJID", wrap |-> "INTERNAL_ERROR",
      args |-> TRUE, notFound |-> TRUE ],
    [ tool |-> "list_messages", kind |-> "store", target |-> "Messages.List", wrap |-> "INTERNAL_ERROR",
      args |-> TRUE, notFound |-> FALSE ],
    [ tool |-> "archive_chat", kind |-> "bridge", target |-> "ArchiveChat", wrap |-> "INTERNAL_ERROR",
      args |-> TRUE, notFound |-> FALSE ],
    [ tool |-> "unarchive_chat", kind |-> "bridge", target |-> "ArchiveChat", wrap |-> "INTERNAL_ERROR",
      args |-> TRUE, notFound |-> FALSE ],
    [ tool |-> "pin_chat", kind |-> "bridge", target |-> "PinChat", wrap |-> "INTERNAL_ERROR",
      args |-> TRUE, notFound |-> FALSE ],
    [ tool |-> "unpin_chat", kind |-> "bridge", target |-> "PinChat", wrap |-> "INTERNAL_ERROR",
      args |-> TRUE, notFound |-> FALSE ],
    [ tool |-> "mute_chat", kind |-> "bridge", target |-> "MuteChat", wrap |-> "INTERNAL_ERROR",
      args |-> TRUE, notFound |-> FALSE ],
    [ tool |-> "unmute_chat", kind |-> "bridge", target |-> "MuteChat", wrap |-> "INTERNAL_ERROR",
      args |-> TRUE, notFound |-> FALSE ],
    [ tool |-> "mark_chat_read", kind |-> "bridge", target |-> "MarkChatRead", wrap |-> "INTERNAL_ERROR",
      args |-> TRUE, notFound |-> FALSE ],
    [ tool |-> "delete_chat", kind |-> "bridge", target |-> "DeleteChat", wrap |-> "INTERNAL_ERROR",
      args |-> TRUE, notFound |-> FALSE ],
    [ tool |-> "search_contacts", kind |-> "store", target |-> "Contacts.Search", wrap |-> "INTERNAL_ERROR",
      args |-> TRUE, notFound |-> FALSE ],
    [ tool |-> "get_contact", kind |-> "store", target |-> "Contacts.GetByJID", wrap |-> "INTERNAL_ERROR",
      args |-> TRUE, notFound |-> TRUE ],
    [ tool |-> "block_contact", kind |-> "bridge", target |-> "BlockContact", wrap |-> "INTERNAL_ERROR",
      args |-> TRUE, notFound |-> FALSE ],
    [ tool |-> "unblock_contact", kind |-> "bridge", target |-> "BlockContact", wrap |-> "INTERNAL_ERROR",
      args |-> TRUE, notFound |-> FALSE ],
    [ tool |-> "get_blocked_contacts", kind |-> "store", target |-> "Contacts.GetBlocked", wrap |-> "INTERNAL_ERROR",
      args |-> FALSE, notFound |-> FALSE ],
    [ tool |-> "check_phone_registered", kind |-> "bridge", target |-> "CheckPhoneRegistered", wrap |-> "INTERNAL_ERROR",
      args |-> TRUE, notFound |-> FALSE ],
    [ tool |-> "send_message", kind |-> "bridge", target |-> "SendMessage", wrap |-> "MESSAGE_FAILED",
      args |-> TRUE, notFound |-> FALSE ],
    [ tool |-> "reply_to_message", kind |-> "bridge", target |-> "ReplyToMessage", wrap |-> "MESSAGE_FAILED",
      args |-> TRUE, notFound |-> FALSE ],
    [ tool |-> "forward_message", kind |-> "bridge", target |-> "ForwardMessage", wrap |-> "MESSAGE_FAILED",
      args |-> TRUE, notFound |-> FALSE ],
    [ tool |-> "edit_message", kind |-> "bridge", target |-> "EditMessage", wrap |-> "MESSAGE_FAILED",
      args |-> TRUE, notFound |-> FALSE ],
    [ tool |-> "delete_message", kind |-> "bridge", target |-> "DeleteMessage", wrap |-> "MESSAGE_FAILED",
      args |-> TRUE, notFound |-> FALSE ],
    [ tool |-> "react_to_message", kind |-> "bridge", target |-> "ReactToMessage", wrap |-> "MESSAGE_FAILED",
      args |-> TRUE, notFound |-> FALSE ],
    [ tool |-> "star_message", kind |-> "store", target |-> "Messages.SetStarred", wrap |-> "INTERNAL_ERROR",
      args |-> TRUE, notFound |-> FALSE ],
    [ tool |-> "unstar_message", kind |-> "store", target |-> "Messages.SetStarred", wrap |-> "INTERNAL_ERROR",
      args |-> TRUE, notFound |-> FALSE ],
    [ tool |-> "create_group", kind |-> "bridge", target |-> "CreateGroup", wrap |-> "INTERNAL_ERROR",
      args |-> TRUE, notFound |-> FALSE ],
    [ tool |-> "get_group_info", kind |-> "bridge", target |-> "GetGroupInfo", wrap |-> "INTERNAL_ERROR",
      args |-> TRUE, notFound |-> FALSE ],
    [ tool |-> "leave_group", kind |-> "bridge", target |-> "LeaveGroup", wrap |-> "INTERNAL_ERROR",
      args |-> TRUE, notFound |-> FALSE ],
    [ tool |-> "add_group_members", kind |-> "bridge", target |-> "AddGroupMembers", wrap |-> "INTERNAL_ERROR",
      args |-> TRUE, notFound |-> FALSE ],
    [ tool |-> "remove_group_members", kind |-> "bridge", target |-> "RemoveGroupMembers", wrap |-> "INTERNAL_ERROR",
      args |-> TRUE, notFound |-> FALSE ],
    [ tool |-> "promote_admin", kind |-> "bridge", target |-> "PromoteAdmin", wrap |-> "INTERNAL_ERROR",
      args |-> TRUE, notFound |-> FALSE ],
    [ tool |-> "demote_admin", kind |-> "bridge", target |-> "DemoteAdmin", wrap |-> "INTERNAL_ERROR",
      args |-> TRUE, notFound |-> FALSE ],
    [ tool |-> "set_group_name", kind |-> "bridge", target |-> "SetGroupName", wrap |-> "INTERNAL_ERROR",
      args |-> TRUE, notFound |-> FALSE ],
    [ tool |-> "set_group_topic", kind |-> "bridge", target |-> "SetGroupTopic", wrap |-> "INTERNAL_ERROR",
      args |-> TRUE, notFound |-> FALSE ],
    [ tool |-> "set_group_photo", kind |-> "bridge", target |-> "SetGroupPhoto", wrap |-> "INTERNAL_ERROR",
      args |-> TRUE, notFound |-> FALSE ],
    [ tool |-> "get_invite_link", kind |-> "bridge", target |-> "GetInviteLink", wrap |-> "INTERNAL_ERROR",
      args |-> TRUE, notFound |-> FALSE ],
    [ tool |-> "revoke_invite_link", kind |-> "bridge", target |-> "RevokeInviteLink", wrap |-> "INTERNAL_ERROR",
      args |-> TRUE, notFound |-> FALSE ],
    [ tool |-> "join_via_invite", kind |-> "bridge", target |-> "JoinViaInvite", wrap |-> "INTERNAL_ERROR",
      args |-> TRUE, notFound |-> FALSE ],
    [ tool |-> "send_image", kind |-> "bridge", target |-> "SendImage", wrap |-> "INTERNAL_ERROR",
      args |-> TRUE, notFound |-> FALSE ],
    [ tool |-> "send_video", kind |-> "bridge", target |-> "SendVideo", wrap |-> "INTERNAL_ERROR",
      args |-> TRUE, notFound |-> FALSE ],
    [ tool |-> "send_audio", kind |-> "bridge", target |-> "SendAudio", wrap |-> "INTERNAL_ERROR",
      args |-> TRUE, notFound |-> FALSE ],
    [ tool |-> "send_document", kind |-> "bridge", target |-> "SendDocument", wrap |-> "INTERNAL_ERROR",
      args |-> TRUE, notFound |-> FALSE ],
    [ tool |-> "send_location", kind |-> "bridge", target |-> "SendLocation", wrap |-> "INTERNAL_ERROR",
      args |-> TRUE, notFound |-> FALSE ],
    [ tool |-> "send_contact_card", kind |-> "bridge", target |-> "SendContactCard", wrap |-> "INTERNAL_ERROR",
      args |-> TRUE, notFound |-> FALSE ],
    [ tool |-> "download_media", kind |-> "bridge", target |-> "DownloadMedia", wrap |-> "INTERNAL_ERROR",
      args |-> TRUE, notFound |-> FALSE ],
    [ tool |-> "subscribe_presence", kind |-> "bridge", target |-> "SubscribePresence", wrap |-> "INTERNAL_ERROR",
      args |-> TRUE, notFound |-> FALSE ],
    [ tool |-> "send_typing", kind |-> "bridge", target |-> "SendTyping", wrap |-> "INTERNAL_ERROR",
      args |-> TRUE, notFound |-> FALSE ],
    [ tool |-> "send_recording", kind |-> "bridge", target |-> "SendRecording", wrap |-> "INTERNAL_ERROR",
      args |-> TRUE, notFound |-> FALSE ],
    [ tool |-> "set_online", kind |-> "bridge", target |-> "SetOnline", wrap |-> "INTERNAL_ERROR",
      args |-> FALSE, notFound |-> FALSE ],
    [ tool |-> "set_offline", kind |-> "bridge", target |-> "SetOffline", wrap |-> "INTERNAL_ERROR",
      args |-> FALSE, notFound |-> FALSE ],
    [ tool |-> "post_text_status", kind |-> "bridge", target |-> "PostTextStatus", wrap |-> "INTERNAL_ERROR",
      args |-> TRUE, notFound |-> FALSE ],
    [ tool |-> "post_image_status", kind |-> "bridge", target |-> "PostImageStatus", wrap |-> "INTERNAL_ERROR",
      args |-> TRUE, notFound |-> FALSE ],
    [ tool |-> "get_status_updates", kind |-> "store", target |-> "Status.GetByContact", wrap |-> "INTERNAL_ERROR",
      args |-> FALSE, notFound |-> FALSE ],
    [ tool |-> "delete_status", kind |-> "bridge", target |-> "DeleteStatus", wrap |-> "INTERNAL_ERROR",
      args |-> TRUE, notFound |-> FALSE ] }

ToolNames == { h.tool : h \in HandleToolSwitch }

\* a name HandleTool's switch does not know
UnknownTool == "unknown_tool"

Handler(name) == CHOOSE h \in HandleToolSwitch : h.tool = name

(***************************************************************************)
(* internal/bridge/bridge.go: the capability methods of the Bridge and the *)
(* client method each one delegates to once the readiness check passed.    *)
(***************************************************************************)
Delegates ==
  { << "SendMessage", "SendMessage" >>,
    << "ReplyToMessage", "ReplyToMessage" >>,
    << "ForwardMessage", "ForwardMessage" >>,
    << "EditMessage", "EditMessage" >>,
    << "DeleteMessage", "DeleteMessage" >>,
    << "ReactToMessage", "ReactToMessage" >>,
    << "SendImage", "SendImage" >>,
    << "SendVideo", "SendVideo" >>,
    << "SendAudio", "SendAudio" >>,
    << "SendDocument", "SendDocument" >>,
    << "SendLocation", "SendLocation" >>,
    << "SendContactCard", "SendContactCard" >>,
    << "DownloadMedia", "DownloadMedia" >>,
    << "ArchiveChat", "ArchiveChat" >>,
    << "PinChat", "PinChat" >>,
    << "MuteChat", "MuteChat" >>,
    << "MarkChatRead", "MarkChatRead" >>,
    << "DeleteChat", "DeleteChat" >>,
    << "BlockContact", "BlockContact" >>,
    << "CheckPhoneRegistered", "CheckPhoneRegistered" >>,
    << "CreateGroup", "CreateGroup" >>,
    << "GetGroupInfo", "GetGroupInfo" >>,
    << "LeaveGroup", "LeaveGroup" >>,
    << "AddGroupMembers", "AddGroupMembers" >>,
    << "RemoveGroupMembers", "RemoveGroupMembers" >>,
    << "PromoteAdmin", "PromoteAdmin" >>,
    << "DemoteAdmin", "DemoteAdmin" >>,
    << "SetGroupName", "SetGroupName" >>,
    << "SetGroupTopic", "SetGroupTopic" >>,
    << "SetGroupPhoto", "SetGroupPhoto" >>,
    << "GetInviteLink", "GetInviteLink" >>,
    << "RevokeInviteLink", "RevokeInviteLink" >>,
    << "JoinViaInvite", "JoinViaInvite" >>,
    << "SubscribePresence", "SubscribePresence" >>,
    << "SendTyping", "SendTyping" >>,
    << "SendRecording", "SendRecording" >>,
    << "SetOnline", "SetOnline" >>,
    << "SetOffline", "SetOffline" >>,
    << "PostTextStatus", "PostTextStatus" >>,
    << "PostImageStatus", "PostImageStatus" >>,
    << "DeleteStatus", "DeleteStatus" >> }

CapabilityMethods == { d[1] : d \in Delegates }

ClientMethod(method) == (CHOOSE d \in Delegates : d[1] = method)[2]

\* tools.go: requiresReady
requiresReady(name) ==
  name \notin { "get_bridge_status", "get_connection_history", "list_chats",
                "get_chat", "list_messages", "search_contacts", "get_contact",
                "get_blocked_contacts" }

(***************************************************************************)
(* pkg/api/errors.go and tools.go: the results HandleTool returns.  state  *)
(* is the lifecycle state the message (or the status body) names; goErr is *)
(* the Go error returned next to the result.                               *)
(***************************************************************************)
NoResult ==
  [ isError |-> FALSE, code |-> "none", retry |-> FALSE, state |-> "none",
    goErr |-> FALSE ]

\* NewNotReadyError without the retry flag
NewNotReadyErrorNoRetry(currentState) ==
  [ isError |-> TRUE, code |-> "NOT_READY", retry |-> FALSE,
    state |-> currentState, goErr |-> FALSE ]

\* errorResult(NewNotReadyError(currentState))
NewNotReadyError(currentState) ==
  [ isError |-> TRUE, code |-> "NOT_READY", retry |-> TRUE,
    state |-> currentState, goErr |-> FALSE ]

\* errorResult(NewInvalidInputError(...))
NewInvalidInputError ==
  [ isError |-> TRUE, code |-> "INVALID_INPUT", retry |-> FALSE,
    state |-> "none", goErr |-> FALSE ]

\* errorResult(NewNotFoundError(...))
NewNotFoundError ==
  [ isError |-> TRUE, code |-> "NOT_FOUND", retry |-> FALSE, state |-> "none",
    goErr |-> FALSE ]

\* errorResult(NewMessageFailedError(err)): the message is the error's text
NewMessageFailedError(named) ==
  [ isError |-> TRUE, code |-> "MESSAGE_FAILED", retry |-> TRUE,
    state |-> named, goErr |-> FALSE ]

\* errorResult(NewInternalError(err)): the message is the error's text
NewInternalError(named) ==
  [ isError |-> TRUE, code |-> "INTERNAL_ERROR", retry |-> FALSE,
    state |-> named, goErr |-> FALSE ]

\* successResult(data); for get_bridge_status the data names the state
successResult(named) ==
  [ isError |-> FALSE, code |-> "OK", retry |-> FALSE, state |-> named,
    goErr |-> FALSE ]

VARIABLES
  smState,        \* Machine.sm: the current state of the stateless machine
  callbacks,      \* Machine.callbacks, in registration order: "bridge" | "recorder"
  stateListeners, \* Bridge.stateListeners: how many are registered
  savedState,     \* store: bridge_state.state (row id = 1)
  transitions,    \* store: the rows of table transitions, in id order
  observed,       \* the transitions the Bridge's callback was called for, in order
  now,            \* the wall clock read by time.Now()
  storeFaults,    \* store writes that have failed so far
  last,           \* the machine call that returned last, and what it did
  bridgeAttached, \* Handler.bridge # nil
  tool,           \* the HandleTool call of the tool client: position and result
  op,             \* the capability call on the Bridge: position and result
  conn,           \* the Bridge.Connect call: position, what it fired, what it returned
  session,        \* WhatsAppClient.IsLoggedIn(): the client holds a paired session
  handlers,       \* handlers the Bridge has registered on the client (AddEventHandler)
  delivered,      \* the protocol event the client delivered last, and what it caused
  retryCount,     \* Monitor.retryCount
  backoffStep,    \* Monitor.reconnectBackoff: NextBackOff calls since its Reset
  reconnectCount, \* Monitor.reconnectCount
  timers,         \* the goroutines ScheduleReconnect started, in order
  monitorStop,    \* the Monitor.Stop call: "none" | "cancelled" | "returned"
  events,         \* Bridge.events: the queued events, oldest first
  closed,         \* Bridge.events has been closed
  eventListeners, \* Bridge.eventListeners: how many are registered
  handling,       \* the event processEvents has taken and is handling
  handled,        \* what handleEvent did for the events it handled, in order
  bridgeStop,     \* the Bridge.Stop call: "none" | "stopping" | "returned"
  chats,          \* store: the jids of the rows of table chats
  messages,       \* store: the (id, chat_jid) keys of the rows of table messages
  dropped,        \* events EmitEvent dropped (and logged) because the queue was full
  messagesReceived, \* Monitor.messagesReceived
  messagesSent,   \* Monitor.messagesSent
  status,         \* the Status the last GetStatus call returned, and how many calls
  hsync,          \* the persistHistorySync call: the batch's size, the position in it
  clientConnected, \* WhatsAppClient: Connect has returned nil, Disconnect not called since
  disc,           \* the Bridge.Disconnect call: position, what its Fire did
  fault,          \* the runtime panic that ended the process, or "none"
  delay,          \* what GetNextReconnectDelay returned last since the last Reset, or 0
  chatRows,       \* store: for each row of table chats, its values beside the key
  recorded        \* the RecordMessageReceived and RecordMessageSent calls made so far

machineVars == << smState, callbacks, stateListeners, last >>

storeVars == << savedState, transitions, observed, now, storeFaults >>

apiVars == << bridgeAttached, tool, op >>

connVars == << conn, session, handlers, delivered >>

healthVars == << retryCount, backoffStep, reconnectCount, timers, monitorStop >>

queueVars == << events, closed, eventListeners, handling, handled, bridgeStop >>

ingestVars ==
  << chats, messages, dropped, messagesReceived, messagesSent, status, hsync >>

restVars == << clientConnected, disc, fault, delay, chatRows, recorded >>

vars ==
  << smState, callbacks, stateListeners, savedState, transitions, observed, now,
     storeFaults, last, bridgeAttached, tool, op, conn, session, handlers,
     delivered, retryCount, backoffStep, reconnectCount, timers, monitorStop,
     events, closed, eventListeners, handling, handled, bridgeStop, chats,
     messages, dropped, messagesReceived, messagesSent, status, hsync,
     clientConnected, disc, fault, delay, chatRows, recorded >>

NoCall ==
  [ op |-> "none", trigger |-> "none", from |-> "none", err |-> FALSE,
    can |-> FALSE, calls |-> << >> ]

NoTool == [ pc |-> "idle", name |-> "none", seen |-> "none", result |-> NoResult ]

NoOp ==
  [ pc |-> "idle", method |-> "none", caller |-> "none", seen |-> "none",
    calls |-> << >>, err |-> "none", named |-> "none" ]

(***************************************************************************)
(* internal/store/sqlite.go: SQLiteStateRepo.  ok = FALSE is a failed      *)
(* write (ExecContext returns an error and the row is not written).        *)
(***************************************************************************)
SaveState(saved, s, ok) == IF ok THEN s ELSE saved

LogTransition(log, from, to, trigger, ts, ok) ==
  IF ok
  THEN Append(log, [ from_state |-> from, to_state |-> to, trigger |-> trigger,
                     timestamp |-> ts ])
  ELSE log

(***************************************************************************)
(* internal/bridge/bridge.go: the callback NewBridge registers on the      *)
(* machine.  It saves the state, logs the transition (a failure of either  *)
(* write is logged and otherwise ignored) and calls every state listener   *)
(* with (from, to).                                                        *)
(***************************************************************************)
NotifyListeners(n, from, to) ==
  [ i \in 1..n |-> [ who |-> "listener", id |-> i, from |-> from, to |-> to,
                     trigger |-> "none" ] ]

\* the calls one machine callback makes, in order
CallbackCalls(kind, i, listeners, from, to, t) ==
  << [ who |-> kind, id |-> i, from |-> from, to |-> to, trigger |-> t ] >>
  \o (IF kind = "bridge" THEN NotifyListeners(listeners, from, to) ELSE << >>)

RECURSIVE RunCallbacks(_, _, _, _, _, _)
RunCallbacks(cbs, i, listeners, from, to, t) ==
  IF i > Len(cbs)
  THEN << >>
  ELSE CallbackCalls(cbs[i], i, listeners, from, to, t)
       \o RunCallbacks(cbs, i + 1, listeners, from, to, t)

\* machine.go: the sm.OnTransitioned hook: every registered callback, in order
OnTransitioned(cbs, listeners, from, to, t) ==
  RunCallbacks(cbs, 1, listeners, from, to, t)

HasBridge == \E i \in 1..Len(callbacks) : callbacks[i] = "bridge"

\* an unhandled trigger ignored instead of reported
UnhandledTriggerIgnored(s, t) ==
  [ op |-> "Fire", trigger |-> t, from |-> s, err |-> FALSE, can |-> FALSE,
    calls |-> << >> ]

\* stateless: the default unhandled-trigger action returns an error
UnhandledTrigger(s, t) ==
  [ op |-> "Fire", trigger |-> t, from |-> s, err |-> TRUE, can |-> FALSE,
    calls |-> << >> ]

(***************************************************************************)
(* Machine.Fire.  saveOk and logOk are the outcomes of the two store       *)
(* writes of the Bridge's callback; they matter only when it is registered.*)
(***************************************************************************)
Faults(saveOk, logOk) == (IF saveOk THEN 0 ELSE 1) + (IF logOk THEN 0 ELSE 1)

\* stateless internalFire: the transition, the hook and what the call returns
internalFire(t, saveOk, logOk) ==
  LET from == smState IN
  IF CanFireCtx(from, t)
  THEN LET to == Destination(from, t) IN
       /\ smState' = to
       /\ savedState' = IF HasBridge THEN SaveState(savedState, to, saveOk)
                        ELSE savedState
       /\ transitions' = IF HasBridge
                         THEN LogTransition(transitions, from, to, t, now, logOk)
                         ELSE transitions
       /\ observed' = IF HasBridge
                      THEN Append(observed, [ from_state |-> from, to_state |-> to,
                                              trigger |-> t ])
                      ELSE observed
       /\ last' = [ op |-> "Fire", trigger |-> t, from |-> from, err |-> FALSE,
                    can |-> TRUE,
                    calls |-> OnTransitioned(callbacks, stateListeners, from, to, t) ]
       /\ storeFaults' = IF HasBridge THEN storeFaults + Faults(saveOk, logOk)
                         ELSE storeFaults
       /\ UNCHANGED << callbacks, stateListeners, now >>
  ELSE /\ last' = UnhandledTrigger(from, t)
       /\ UNCHANGED << smState, callbacks, stateListeners >>
       /\ UNCHANGED storeVars

\* Machine.Fire called on the machine by a caller of its own
FireCtx(t, saveOk, logOk) ==
  /\ internalFire(t, saveOk, logOk)
  /\ UNCHANGED apiVars
  /\ UNCHANGED << connVars, healthVars, queueVars >>
  /\ UNCHANGED ingestVars
  /\ UNCHANGED restVars

Fire(t) ==
  \E saveOk \in BOOLEAN, logOk \in BOOLEAN :
    /\ storeFaults + Faults(saveOk, logOk) <= MaxStoreFaults
    /\ FireCtx(t, saveOk, logOk)

\* Machine.CanFire
CanFire(t) ==
  /\ last' = [ op |-> "CanFire", trigger |-> t, from |-> smState, err |-> FALSE,
               can |-> CanFireCtx(smState, t), calls |-> << >> ]
  /\ UNCHANGED << smState, callbacks, stateListeners >>
  /\ UNCHANGED storeVars
  /\ UNCHANGED apiVars
  /\ UNCHANGED << connVars, healthVars, queueVars >>
  /\ UNCHANGED ingestVars
  /\ UNCHANGED restVars

\* Machine.OnTransition: append a callback
OnTransition ==
  /\ Len(callbacks) < MaxCallbacks + (IF HasBridge THEN 1 ELSE 0)
  /\ callbacks' = Append(callbacks, "recorder")
  /\ last' = [ NoCall EXCEPT !.op = "OnTransition" ]
  /\ UNCHANGED << smState, stateListeners >>
  /\ UNCHANGED storeVars
  /\ UNCHANGED apiVars
  /\ UNCHANGED << connVars, healthVars, queueVars >>
  /\ UNCHANGED ingestVars
  /\ UNCHANGED restVars

\* Bridge.OnStateChange: append a state listener
OnStateChange ==
  /\ stateListeners < MaxListeners
  /\ stateListeners' = stateListeners + 1
  /\ last' = [ NoCall EXCEPT !.op = "OnStateChange" ]
  /\ UNCHANGED << smState, callbacks >>
  /\ UNCHANGED storeVars
  /\ UNCHANGED apiVars
  /\ UNCHANGED << connVars, healthVars, queueVars >>
  /\ UNCHANGED ingestVars
  /\ UNCHANGED restVars

\* time passes
Tick ==
  /\ now < MaxClock
  /\ now' = now + 1
  /\ UNCHANGED machineVars
  /\ UNCHANGED << savedState, transitions, observed, storeFaults >>
  /\ UNCHANGED apiVars
  /\ UNCHANGED << connVars, healthVars, queueVars >>
  /\ UNCHANGED ingestVars
  /\ UNCHANGED restVars

(***************************************************************************)
(* pkg/api/tools.go: Handler.HandleTool.  The gate reads the Bridge's      *)
(* state once (IsReady) and, when it rejects the call, once more           *)
(* (CurrentState) to build the error; the machine may move in between.     *)
(* argsOk says whether the required arguments are present, outcome what    *)
(* the store answers.                                                      *)
(***************************************************************************)
StoreOutcomes(name) ==
  IF name \in ToolNames /\ Handler(name).kind = "store"
  THEN { "ok", "error" } \cup (IF Handler(name).notFound THEN { "not_found" } ELSE { })
  ELSE { "ok" }

\* the switch of HandleTool: the handler of the tool, up to its call on the Bridge
Dispatch(name, seen, argsOk, outcome) ==
  LET called == [ NoTool EXCEPT !.name = name, !.seen = seen ] IN
  IF name \notin ToolNames
  THEN /\ tool' = [ called EXCEPT !.result = NewInvalidInputError ]
       /\ op' = NoOp
  ELSE LET h == Handler(name) IN
       IF h.args /\ ~argsOk
       THEN /\ tool' = [ called EXCEPT !.result = NewInvalidInputError ]
            /\ op' = NoOp
       ELSE IF h.kind = "bridge"
       THEN /\ tool' = [ called EXCEPT !.pc = "inBridge" ]
            /\ op' = [ NoOp EXCEPT !.pc = "check", !.method = h.target,
                                   !.caller = "tool" ]
       ELSE IF h.kind = "health"
       THEN /\ tool' = [ called EXCEPT !.result = successResult(smState) ]
            /\ op' = NoOp
       ELSE /\ tool' = [ called EXCEPT
                           !.result = CASE outcome = "ok" -> successResult("none")
                                        [] outcome = "not_found" -> NewNotFoundError
                                        [] OTHER -> NewInternalError("none") ]
            /\ op' = NoOp

\* HandleTool, from the call to its return or to its first wait on the Bridge
HandleTool(name, argsOk, outcome) ==
  /\ tool = NoTool
  /\ op = NoOp
  /\ LET seen == IF ~requiresReady(name) THEN "none"
                 ELSE IF bridgeAttached THEN smState ELSE "nil" IN
     IF requiresReady(name) /\ (~bridgeAttached \/ ~IsReady(smState))
     THEN /\ tool' = IF bridgeAttached
                     THEN [ NoTool EXCEPT !.pc = "notReady", !.name = name,
                                          !.seen = seen ]
                     ELSE [ NoTool EXCEPT !.name = name, !.seen = seen,
                              !.result = NewNotReadyError(StateDisconnected) ]
          /\ op' = NoOp
     ELSE Dispatch(name, seen, argsOk, outcome)
  /\ UNCHANGED << connVars, healthVars, queueVars >>
  /\ UNCHANGED ingestVars
  /\ UNCHANGED restVars
  /\ UNCHANGED machineVars
  /\ UNCHANGED storeVars
  /\ UNCHANGED bridgeAttached

\* HandleTool, rejecting: currentState = h.bridge.CurrentState(), then the result
HandleToolNotReady ==
  /\ tool.pc = "notReady"
  /\ tool' = [ tool EXCEPT !.pc = "idle", !.result = NewNotReadyError(smState) ]
  /\ UNCHANGED << connVars, healthVars, queueVars >>
  /\ UNCHANGED ingestVars
  /\ UNCHANGED restVars
  /\ UNCHANGED machineVars
  /\ UNCHANGED storeVars
  /\ UNCHANGED << bridgeAttached, op >>

\* the handler's return once its call on the Bridge has returned
HandleToolReturn ==
  /\ tool.pc = "inBridge"
  /\ op.pc = "done"
  /\ tool' = [ tool EXCEPT
                 !.pc = "idle",
                 !.result = IF op.err = "none" THEN successResult("none")
                            ELSE IF Handler(tool.name).wrap = "MESSAGE_FAILED"
                            THEN NewMessageFailedError(op.named)
                            ELSE NewInternalError(op.named) ]
  /\ UNCHANGED << connVars, healthVars, queueVars >>
  /\ UNCHANGED ingestVars
  /\ UNCHANGED restVars
  /\ UNCHANGED machineVars
  /\ UNCHANGED storeVars
  /\ UNCHANGED << bridgeAttached, op >>

(***************************************************************************)
(* internal/bridge/bridge.go: the capability methods.  Each reads the      *)
(* state (IsReady); when it is ready it calls the client method it         *)
(* delegates to, otherwise it reads the state again (CurrentState) for the *)
(* error it returns.                                                       *)
(***************************************************************************)
\* a capability method called directly on the Bridge
BridgeCall(method) ==
  /\ bridgeAttached
  /\ tool = NoTool
  /\ op = NoOp
  /\ tool' = NoTool
  /\ op' = [ NoOp EXCEPT !.pc = "check", !.method = method, !.caller = "direct" ]
  /\ UNCHANGED << connVars, healthVars, queueVars >>
  /\ UNCHANGED ingestVars
  /\ UNCHANGED restVars
  /\ UNCHANGED machineVars
  /\ UNCHANGED storeVars
  /\ UNCHANGED bridgeAttached

\* if !b.IsReady() ..., and in ready the call b.client.<method>(...)
BridgeCheck(clientOk) ==
  /\ op.pc = "check"
  /\ op' = IF IsReady(smState)
           THEN [ op EXCEPT !.pc = "done", !.seen = smState,
                            !.calls = << ClientMethod(op.method) >>,
                            !.err = IF clientOk THEN "none" ELSE "client" ]
           ELSE [ op EXCEPT !.pc = "notReady", !.seen = smState ]
  /\ UNCHANGED << connVars, healthVars, queueVars >>
  /\ UNCHANGED ingestVars
  /\ UNCHANGED restVars
  /\ UNCHANGED machineVars
  /\ UNCHANGED storeVars
  /\ UNCHANGED << bridgeAttached, tool >>

\* return fmt.Errorf("bridge not ready, current state: %s", b.CurrentState())
BridgeNotReady ==
  /\ op.pc = "notReady"
  /\ op' = [ op EXCEPT !.pc = "done", !.err = "not_ready", !.named = smState ]
  /\ UNCHANGED << connVars, healthVars, queueVars >>
  /\ UNCHANGED ingestVars
  /\ UNCHANGED restVars
  /\ UNCHANGED machineVars
  /\ UNCHANGED storeVars
  /\ UNCHANGED << bridgeAttached, tool >>

\* Bridge.SendMedia: always an error, in every state, and no call to the client
SendMedia ==
  /\ bridgeAttached
  /\ tool = NoTool
  /\ op = NoOp
  /\ tool' = NoTool
  /\ op' = [ NoOp EXCEPT !.pc = "done", !.method = "SendMedia",
                         !.caller = "direct", !.err = "unsupported" ]
  /\ UNCHANGED << connVars, healthVars, queueVars >>
  /\ UNCHANGED ingestVars
  /\ UNCHANGED restVars
  /\ UNCHANGED machineVars
  /\ UNCHANGED storeVars
  /\ UNCHANGED bridgeAttached

(***************************************************************************)
(* What NewBridge, NewMonitor and the client hold before anything is       *)
(* called on them.                                                         *)
(***************************************************************************)
NoConnect ==
  [ pc |-> "idle", from |-> "none", fired |-> << >>, clientCalls |-> 0,
    client |-> "none", ctxErr |-> FALSE, loggedIn |-> "none", todo |-> << >>,
    ret |-> "none" ]

\* processEvents is between two events
NoHandling ==
  [ type |-> "none", id |-> 0, seen |-> 0, atStop |-> FALSE, listeners |-> 0,
    calls |-> << >>, write |-> FALSE, ok |-> TRUE, stored |-> FALSE ]

NoEvent == [ type |-> "none", from |-> "none", fired |-> << >>, persisted |-> 0 ]

\* persistHistorySync has not been called
NoHistorySync ==
  [ pc |-> "idle", convs |-> 0, msgs |-> 0, conv |-> 0, msg |-> 0, upserted |-> 0,
    looked |-> 0, last |-> "none" ]

\* GetStatus has not been called
NoStatus == [ calls |-> 0, state |-> "none", connected |-> FALSE, reconnectCount |-> 0,
              messagesReceived |-> 0, messagesSent |-> 0 ]

\* Bridge.Disconnect has not been called
NoDisconnect == [ pc |-> "idle", calls |-> 0, from |-> "none", ok |-> FALSE ]

InitRest ==
  /\ clientConnected = FALSE
  /\ disc = NoDisconnect
  /\ fault = "none"
  /\ delay = 0
  /\ chatRows = << >>
  /\ recorded = [ received |-> 0, sent |-> 0 ]
  /\ chats = { }
  /\ messages = { }
  /\ dropped = 0
  /\ messagesReceived = 0
  /\ messagesSent = 0
  /\ status = NoStatus
  /\ hsync = NoHistorySync
  /\ conn = NoConnect
  /\ session = FALSE
  /\ handlers = 0
  /\ delivered = NoEvent
  /\ retryCount = 0
  /\ backoffStep = 0
  /\ reconnectCount = 0
  /\ timers = << >>
  /\ monitorStop = "none"
  /\ events = << >>
  /\ closed = FALSE
  /\ eventListeners = 0
  /\ handling = NoHandling
  /\ handled = << >>
  /\ bridgeStop = "none"

(***************************************************************************)
(* The machine on its own, as NewMachine returns it.                       *)
(***************************************************************************)
InitMachine ==
  /\ smState = StateDisconnected
  /\ callbacks = << >>
  /\ stateListeners = 0
  /\ savedState = StateDisconnected
  /\ transitions = << >>
  /\ observed = << >>
  /\ now = 0
  /\ storeFaults = 0
  /\ last = NoCall
  /\ bridgeAttached = FALSE
  /\ tool = NoTool
  /\ op = NoOp
  /\ InitRest

NextMachine ==
  \/ \E t \in Triggers : Fire(t)
  \/ \E t \in Triggers : CanFire(t)
  \/ OnTransition

SpecMachine == InitMachine /\ [][NextMachine]_vars

(***************************************************************************)
(* The machine inside a Bridge, as NewBridge returns it over a fresh store *)
(* (the migration inserts bridge_state = 'disconnected'), with observers   *)
(* registering and store writes failing.                                   *)
(***************************************************************************)
Init ==
  /\ smState = StateDisconnected
  /\ callbacks = << "bridge" >>
  /\ stateListeners = 0
  /\ savedState = StateDisconnected
  /\ transitions = << >>
  /\ observed = << >>
  /\ now = 0
  /\ storeFaults = 0
  /\ last = NoCall
  /\ bridgeAttached = TRUE
  /\ tool = NoTool
  /\ op = NoOp
  /\ InitRest

BridgeFire(t) == Len(observed) < MaxObserved /\ Fire(t)

Next ==
  \/ \E t \in Triggers : BridgeFire(t)
  \/ OnTransition
  \/ OnStateChange

Spec == Init /\ [][Next]_vars

(***************************************************************************)
(* The transition log of a Bridge: transitions fired while time passes and *)
(* store writes fail.                                                      *)
(***************************************************************************)
LogFire(t) == Len(observed) < MaxLog /\ CanFireCtx(smState, t) /\ Fire(t)

NextLog ==
  \/ \E t \in Triggers : LogFire(t)
  \/ Tick

SpecLog == Init /\ [][NextLog]_vars

(***************************************************************************)
(* The tool handler over a Bridge (or over none: NewHandler(nil, ...)),    *)
(* with the lifecycle moving underneath through the Bridge's machine.  A   *)
(* behaviour follows one call, made in any state the lifecycle reaches:    *)
(* the handler and the capability methods keep nothing between calls.      *)
(***************************************************************************)
InitTools ==
  /\ bridgeAttached \in BOOLEAN
  /\ smState = StateDisconnected
  /\ callbacks = IF bridgeAttached THEN << "bridge" >> ELSE << >>
  /\ stateListeners = 0
  /\ savedState = StateDisconnected
  /\ transitions = << >>
  /\ observed = << >>
  /\ now = 0
  /\ storeFaults = 0
  /\ last = NoCall
  /\ tool = NoTool
  /\ op = NoOp
  /\ InitRest

\* b.GetStateMachine().Fire(t), for a trigger the state permits
Transition(t) ==
  /\ bridgeAttached
  /\ Len(observed) < MaxToolLog
  /\ CanFireCtx(smState, t)
  /\ FireCtx(t, TRUE, TRUE)

NextTools ==
  \/ \E t \in Triggers : Transition(t)
  \/ \E name \in ToolNames \cup { UnknownTool }, argsOk \in BOOLEAN :
       \E outcome \in StoreOutcomes(name) : HandleTool(name, argsOk, outcome)
  \/ HandleToolNotReady
  \/ HandleToolReturn
  \/ \E method \in CapabilityMethods : BridgeCall(method)
  \/ \E clientOk \in BOOLEAN : BridgeCheck(clientOk)
  \/ BridgeNotReady
  \/ SendMedia

SpecTools == InitTools /\ [][NextTools]_vars

(***************************************************************************)
(* The transition table as the specification prints it, by source state:   *)
(* each row a source with its trigger -> destination pairs.                *)
(***************************************************************************)
Row(source, pairs) == { << source, p[1], p[2] >> : p \in pairs }

TransitionTable ==
  Row("disconnected",
      { <<"connect", "connecting">>, <<"shutdown", "shutting_down">> })
  \cup Row("connecting",
      { <<"qr_required", "qr_pending">>, <<"authenticated", "syncing">>,
        <<"connection_lost", "reconnecting">>, <<"disconnect", "disconnected">>,
        <<"shutdown", "shutting_down">>, <<"fatal_error", "fatal_error">> })
  \cup Row("qr_pending",
      { <<"qr_scanned", "authenticating">>, <<"connection_lost", "reconnecting">>,
        <<"disconnect", "disconnected">>, <<"shutdown", "shutting_down">>,
        <<"fatal_error", "fatal_error">> })
  \cup Row("authenticating",
      { <<"authenticated", "syncing">>, <<"session_invalid", "session_expired">>,
        <<"connection_lost", "reconnecting">>, <<"disconnect", "disconnected">>,
        <<"shutdown", "shutting_down">>, <<"fatal_error", "fatal_error">> })
  \cup Row("syncing",
      { <<"sync_complete", "ready">>, <<"connection_lost", "reconnecting">>,
        <<"disconnect", "disconnected">>, <<"shutdown", "shutting_down">>,
        <<"fatal_error", "fatal_error">> })
  \cup Row("ready",
      { <<"connection_lost", "reconnecting">>, <<"session_invalid", "session_expired">>,
        <<"ban_detected", "temporary_ban">>, <<"logout", "logged_out">>,
        <<"disconnect", "disconnected">>, <<"shutdown", "shutting_down">>,
        <<"fatal_error", "fatal_error">> })
  \cup Row("reconnecting",
      { <<"reconnected", "ready">>, <<"qr_required", "qr_pending">>,
        <<"session_invalid", "session_expired">>, <<"disconnect", "disconnected">>,
        <<"shutdown", "shutting_down">>, <<"fatal_error", "fatal_error">> })
  \cup Row("temporary_ban",
      { <<"ban_lifted", "reconnecting">>, <<"disconnect", "disconnected">>,
        <<"shutdown", "shutting_down">>, <<"fatal_error", "fatal_error">> })
  \cup Row("logged_out",
      { <<"connect", "connecting">>, <<"shutdown", "shutting_down">> })
  \cup Row("session_expired",
      { <<"connect", "connecting">>, <<"shutdown", "shutting_down">> })
  \cup Row("fatal_error", { <<"shutdown", "shutting_down">> })

Listed(s, t) == \E r \in TransitionTable : r[1] = s /\ r[2] = t

\* the last call on the machine was a Fire that returned nil
Fired == last.op = "Fire" /\ ~last.err

\* the last call on the machine was a Fire that returned an error
Rejected == last.op = "Fire" /\ last.err

(***************************************************************************)
(* C1.  For every state s and trigger t, Fire(t) in s succeeds exactly     *)
(* when (s, t) is in the specification's transition table and then the new *)
(* state is the listed destination; CanFire(t) in s is true exactly for    *)
(* those pairs and leaves the state as it was.  In particular ready        *)
(* --ban_detected--> temporary_ban --ban_lifted--> reconnecting, and no    *)
(* state permits the trigger reconnect.                                    *)
(***************************************************************************)
C1_TransitionTable ==
  /\ last.op = "Fire" =>
       /\ ~last.err <=> Listed(last.from, last.trigger)
       /\ ~last.err => << last.from, last.trigger, smState >> \in TransitionTable
  /\ last.op = "CanFire" =>
       /\ last.can <=> Listed(last.from, last.trigger)
       /\ smState = last.from
  /\ Fired /\ last.from = StateReady /\ last.trigger = TriggerBanDetected
       => smState = StateTemporaryBan
  /\ Fired /\ last.from = StateTemporaryBan /\ last.trigger = TriggerBanLifted
       => smState = StateReconnecting
  /\ last.op = "Fire" /\ last.trigger = TriggerReconnect => last.err
  /\ last.op = "CanFire" /\ last.trigger = TriggerReconnect => ~last.can
  /\ \A st \in States : ~CanFireCtx(st, TriggerReconnect)

\* C1 witness: ban_lifted fired in temporary_ban has led to reconnecting
C1_Witness ==
  /\ Fired
  /\ last.from = StateTemporaryBan
  /\ last.trigger = TriggerBanLifted
  /\ smState = StateReconnecting

(***************************************************************************)
(* C2.  Fire returns an error exactly for the (state, trigger) pairs that  *)
(* are not in the transition table (a failing store write does not make it *)
(* fail); a Fire that returns an error leaves the current state, the       *)
(* persisted state and the transition log as they were and calls no        *)
(* observer.                                                               *)
(***************************************************************************)
C2_RejectedFire ==
  /\ [](last.op = "Fire" =>
          /\ last.err <=> ~Listed(last.from, last.trigger)
          /\ last.err => smState = last.from /\ last.calls = << >>)
  /\ [][last'.op = "Fire" /\ last'.err =>
          /\ smState' = smState
          /\ savedState' = savedState
          /\ transitions' = transitions
          /\ observed' = observed]_vars

\* C2 witness: a Fire was rejected with records in the log and observers registered
C2_Witness ==
  /\ Rejected
  /\ Len(transitions) > 0
  /\ Len(callbacks) > 1
  /\ stateListeners > 0

(***************************************************************************)
(* C3.  Whatever the state, after Fire(shutdown) the machine is in         *)
(* shutting_down (the call fails only when it already was), and from       *)
(* shutting_down no step changes the state again: every trigger fired      *)
(* there, connect and shutdown included, is rejected.                      *)
(***************************************************************************)
C3_ShutdownIsFinal ==
  /\ [](last.op = "Fire" /\ last.trigger = TriggerShutdown =>
          /\ smState = StateShuttingDown
          /\ last.err <=> last.from = StateShuttingDown)
  /\ [](last.op = "Fire" /\ last.from = StateShuttingDown => last.err)
  /\ [][smState = StateShuttingDown => smState' = StateShuttingDown]_vars

\* C3 witness: connect was fired after shutdown and rejected
C3_Witness ==
  /\ Rejected
  /\ last.from = StateShuttingDown
  /\ last.trigger = TriggerConnect
  /\ smState = StateShuttingDown

(***************************************************************************)
(* C4 as stated.  In each terminal state (logged_out, session_expired,     *)
(* temporary_ban, fatal_error) every trigger other than connect and        *)
(* shutdown is rejected, and shutting_down rejects every trigger.          *)
(***************************************************************************)
C4_TerminalOnlyRestartOrShutdown ==
  /\ last.op = "Fire" /\ IsTerminal(last.from)
       /\ last.trigger \notin { TriggerConnect, TriggerShutdown } => last.err
  /\ last.op = "Fire" /\ last.from = StateShuttingDown => last.err

(***************************************************************************)
(* C4 amended.  logged_out and session_expired permit exactly connect and  *)
(* shutdown; fatal_error permits exactly shutdown; temporary_ban permits   *)
(* exactly ban_lifted, disconnect, shutdown and fatal_error (and not       *)
(* connect); shutting_down permits no trigger.                             *)
(***************************************************************************)
C4_TerminalPermits ==
  last.op = "Fire" =>
    /\ last.from \in { StateLoggedOut, StateSessionExpired } =>
         (~last.err <=> last.trigger \in { TriggerConnect, TriggerShutdown })
    /\ last.from = StateFatalError =>
         (~last.err <=> last.trigger = TriggerShutdown)
    /\ last.from = StateTemporaryBan =>
         (~last.err <=> last.trigger \in { TriggerBanLifted, TriggerDisconnect,
                                           TriggerShutdown, TriggerFatalError })
    /\ last.from = StateShuttingDown => last.err

\* C4 witness: disconnect fired in temporary_ban has led to disconnected
C4_Witness ==
  /\ Fired
  /\ last.from = StateTemporaryBan
  /\ last.trigger = TriggerDisconnect
  /\ smState = StateDisconnected

(***************************************************************************)
(* C5 as stated.  Every Fire on the Bridge's machine is all-or-nothing:    *)
(* after a Fire that returned nil the state has changed, the persisted     *)
(* state is the new state and the log's newest record is that transition,  *)
(* one record per transition performed; after a Fire that returned an      *)
(* error the state is unchanged.  The store's writes may fail.             *)
(***************************************************************************)
C5_AllOrNothing ==
  /\ Fired /\ HasBridge =>
       /\ savedState = smState
       /\ Len(transitions) = Len(observed)
       /\ transitions # << >>
       /\ LET r == transitions[Len(transitions)] IN
            /\ r.from_state = last.from
            /\ r.to_state = smState
            /\ r.trigger = last.trigger
  /\ Rejected => smState = last.from

(***************************************************************************)
(* C6 as stated.  Each Fire on the Bridge's machine that returned nil has  *)
(* produced exactly one transition record, with the (from, to, trigger) of *)
(* the transition, and has called every machine callback and every state   *)
(* listener registered before it exactly once with that (from, to,         *)
(* trigger), before it returned.                                           *)
(***************************************************************************)
C6_OneRecordOneDispatch ==
  Fired /\ HasBridge =>
    /\ Len(transitions) = Len(observed)
    /\ transitions # << >>
    /\ LET r == transitions[Len(transitions)] IN
         << r.from_state, r.to_state, r.trigger >>
           = << last.from, smState, last.trigger >>
    /\ \A i \in 1..Len(callbacks) :
         Cardinality({ k \in 1..Len(last.calls) :
                         last.calls[k]
                           = [ who |-> callbacks[i], id |-> i, from |-> last.from,
                               to |-> smState, trigger |-> last.trigger ] }) = 1
    /\ \A i \in 1..stateListeners :
         Cardinality({ k \in 1..Len(last.calls) :
                         last.calls[k]
                           = [ who |-> "listener", id |-> i, from |-> last.from,
                               to |-> smState, trigger |-> last.trigger ] }) = 1

(***************************************************************************)
(* C7 as stated.  The transition log is ordered as the transitions         *)
(* succeeded: it holds one record per transition performed, in that order, *)
(* timestamps never decrease along it, each record's from-state is the     *)
(* to-state of the record before it, and after connect, qr_required,       *)
(* qr_scanned, authenticated, sync_complete fired from disconnected it     *)
(* holds exactly those 5 records in that order, the state being ready.     *)
(***************************************************************************)
ScenarioA ==
  << TriggerConnect, TriggerQRRequired, TriggerQRScanned, TriggerAuthenticated,
     TriggerSyncComplete >>

C7_LogOrdered ==
  /\ \A i \in 1..(Len(transitions) - 1) :
       /\ transitions[i].timestamp <= transitions[i + 1].timestamp
       /\ transitions[i + 1].from_state = transitions[i].to_state
  /\ [ i \in 1..Len(observed) |-> observed[i].trigger ] = ScenarioA =>
       /\ smState = StateReady
       /\ [ i \in 1..Len(transitions) |-> transitions[i].trigger ] = ScenarioA

(***************************************************************************)
(* C8.  Every capability method of the Bridge first reads the state.  When *)
(* the state it read is not ready it makes no call to the client and       *)
(* returns the not-ready error, which names the state the Bridge is in     *)
(* when the error is built; when it is ready it makes exactly one call, to *)
(* the client method of the same capability, and none before the check.    *)
(***************************************************************************)
C8_CapabilityGate ==
  /\ [](op.method \in CapabilityMethods =>
          /\ op.pc = "check" => op.calls = << >>
          /\ op.pc \in { "notReady", "done" } =>
               IF op.seen = StateReady
               THEN /\ op.pc = "done"
                    /\ op.calls = << ClientMethod(op.method) >>
                    /\ op.err \in { "none", "client" }
               ELSE /\ op.calls = << >>
                    /\ op.pc = "done" => op.err = "not_ready" /\ op.named \in States)
  /\ [][op.pc = "check" /\ op'.pc # "check" => op'.seen = smState]_vars
  /\ [][op.pc = "notReady" /\ op'.pc = "done" => op'.named = smState]_vars

\* C8 witness: a capability method called in temporary_ban returned not-ready
C8_Witness ==
  /\ op.pc = "done"
  /\ op.method = "SendMessage"
  /\ op.seen = StateTemporaryBan
  /\ op.err = "not_ready"
  /\ op.named = StateTemporaryBan
  /\ op.calls = << >>

(***************************************************************************)
(* C9 as stated.  In every lifecycle state, and with no Bridge attached,   *)
(* the tools that only read the store (list_chats, get_chat,               *)
(* list_messages, search_contacts, get_contact, get_blocked_contacts,      *)
(* get_status_updates, get_connection_history) are never rejected with     *)
(* NOT_READY and never reach the Bridge or its client.                     *)
(***************************************************************************)
ReadOnlyTools ==
  { "list_chats", "get_chat", "list_messages", "search_contacts", "get_contact",
    "get_blocked_contacts", "get_status_updates", "get_connection_history" }

C9_ReadOnlyToolsPermitted ==
  tool.name \in ReadOnlyTools =>
    /\ tool.pc = "idle"
    /\ tool.result.code # "NOT_READY"
    /\ op = NoOp

(***************************************************************************)
(* C10.  A tool that requires readiness, called when the Bridge is missing *)
(* or the state the gate reads is not ready, invokes no Bridge operation   *)
(* and returns, with no Go error, an error result with code NOT_READY and  *)
(* retry = true whose message names the state the Bridge is in when the    *)
(* result is built (disconnected when the Bridge is missing).              *)
(***************************************************************************)
C10_NotReadyResult ==
  /\ [](tool.name \in ToolNames /\ requiresReady(tool.name)
          /\ tool.seen # StateReady =>
            /\ tool.pc \in { "notReady", "idle" }
            /\ op = NoOp
            /\ tool.pc = "idle" =>
                 /\ tool.result.isError
                 /\ tool.result.code = "NOT_READY"
                 /\ tool.result.retry
                 /\ ~tool.result.goErr
                 /\ tool.result.state \in States)
  /\ [][tool'.pc = "idle" /\ tool' # tool /\ tool'.result.code = "NOT_READY" =>
          tool'.result.state = smState]_vars

\* C10 witness: send_message called in temporary_ban was answered NOT_READY
C10_Witness ==
  /\ bridgeAttached
  /\ tool.pc = "idle"
  /\ tool.name = "send_message"
  /\ tool.seen = StateTemporaryBan
  /\ tool.result.code = "NOT_READY"
  /\ tool.result.state = StateTemporaryBan

(***************************************************************************)
(* internal/bridge/bridge.go: Bridge.Connect, in the steps between which   *)
(* it waits on the client.  The client is any WhatsAppClient: its Connect  *)
(* returns nil or an error, and a client without a session may have paired *)
(* by the time its Connect returns (internal/whatsapp: pairWithQR) or not  *)
(* (the client of the Bridge's tests).                                     *)
(***************************************************************************)
\* what a Fire by the Bridge appends to the record of its call
Attempt(t) ==
  [ trigger |-> t, ok |-> CanFireCtx(smState, t),
    to |-> IF CanFireCtx(smState, t) THEN Destination(smState, t) ELSE smState ]

\* a failed client.Connect fires fatal_error whatever the context says
FatalOnConnectErrorAlways(ctxErr) == TRUE

\* if ctx.Err() == nil: a failed client.Connect fires fatal_error
FatalOnConnectError(ctxErr) == ~ctxErr

\* the triggers fired after the client connected, always those of a first pairing
AfterConnectAlwaysQR(loggedIn) == << TriggerQRRequired >>

\* the triggers fired after the client connected: if b.client.IsLoggedIn() ... else ...
AfterConnect(loggedIn) ==
  IF loggedIn THEN << TriggerAuthenticated, TriggerSyncComplete >>
  ELSE << TriggerQRRequired >>

\* Fire(connect), and on success registerWhatsAppEventHandler
Connect ==
  /\ conn.pc \in { "idle", "done" }
  /\ handlers < MaxConnects
  /\ internalFire(TriggerConnect, TRUE, TRUE)
  /\ IF CanFireCtx(smState, TriggerConnect)
     THEN /\ conn' = [ NoConnect EXCEPT !.pc = "client", !.from = smState,
                                        !.fired = << Attempt(TriggerConnect) >> ]
          /\ handlers' = handlers + 1
     ELSE /\ conn' = [ NoConnect EXCEPT !.pc = "done", !.from = smState,
                                        !.fired = << Attempt(TriggerConnect) >>,
                                        !.ret = "transition" ]
          /\ handlers' = handlers
  /\ UNCHANGED << session, delivered >>
  /\ UNCHANGED apiVars
  /\ UNCHANGED << healthVars, queueVars >>
  /\ UNCHANGED ingestVars
  /\ UNCHANGED restVars

\* Client.Connect: c.isConnected = true once c.client.Connect() succeeded
ClientConnects(c, ok) == c \/ ok

\* b.client.Connect(ctx) returns; on an error with ctx.Err() == nil, Fire(fatal_error)
ClientConnect(ok, paired, ctxErr) ==
  /\ conn.pc = "client"
  /\ IF ok
     THEN /\ conn' = [ conn EXCEPT !.pc = "loggedIn", !.clientCalls = @ + 1,
                                   !.client = "ok" ]
          /\ session' = (session \/ paired)
          /\ UNCHANGED machineVars
          /\ UNCHANGED storeVars
     ELSE /\ session' = session
          /\ IF FatalOnConnectError(ctxErr)
             THEN /\ internalFire(TriggerFatalError, TRUE, TRUE)
                  /\ conn' = [ conn EXCEPT
                                 !.pc = "done", !.clientCalls = @ + 1,
                                 !.client = "err", !.ctxErr = ctxErr,
                                 !.fired = Append(@, Attempt(TriggerFatalError)),
                                 !.ret = "connect" ]
             ELSE /\ conn' = [ conn EXCEPT !.pc = "done", !.clientCalls = @ + 1,
                                           !.client = "err", !.ctxErr = ctxErr,
                                           !.ret = "connect" ]
                  /\ UNCHANGED machineVars
                  /\ UNCHANGED storeVars
  /\ UNCHANGED << handlers, delivered >>
  /\ UNCHANGED apiVars
  /\ UNCHANGED << healthVars, queueVars >>
  /\ UNCHANGED ingestVars
  /\ clientConnected' = ClientConnects(clientConnected, ok)
  /\ UNCHANGED << disc, fault, delay, chatRows, recorded >>

\* b.client.IsLoggedIn(): the branch Connect takes
ConnectLoggedIn ==
  /\ conn.pc = "loggedIn"
  /\ conn' = [ conn EXCEPT !.pc = "fire",
                           !.loggedIn = IF session THEN "yes" ELSE "no",
                           !.todo = AfterConnect(session) ]
  /\ UNCHANGED << session, handlers, delivered >>
  /\ UNCHANGED machineVars
  /\ UNCHANGED storeVars
  /\ UNCHANGED apiVars
  /\ UNCHANGED << healthVars, queueVars >>
  /\ UNCHANGED ingestVars
  /\ UNCHANGED restVars

\* the next Fire of the branch (an error is logged); after the last, return nil
ConnectFire ==
  /\ conn.pc = "fire"
  /\ internalFire(Head(conn.todo), TRUE, TRUE)
  /\ conn' = [ conn EXCEPT
                 !.pc = IF Len(conn.todo) = 1 THEN "done" ELSE "fire",
                 !.ret = IF Len(conn.todo) = 1 THEN "nil" ELSE "none",
                 !.todo = Tail(@),
                 !.fired = Append(@, Attempt(Head(conn.todo))) ]
  /\ UNCHANGED << session, handlers, delivered >>
  /\ UNCHANGED apiVars
  /\ UNCHANGED << healthVars, queueVars >>
  /\ UNCHANGED ingestVars
  /\ UNCHANGED restVars

\* a Client.Disconnect that leaves the connection as it is
ClientDisconnectKeeps(c) == c

\* Client.Disconnect: c.client.Disconnect(); c.isConnected = false
ClientDisconnect(c) == FALSE

\* Bridge.Disconnect up to the return of b.client.Disconnect()
DisconnectClient ==
  /\ disc.pc \in { "idle", "done" }
  /\ disc.calls < MaxDisconnects
  /\ clientConnected' = ClientDisconnect(clientConnected)
  /\ disc' = [ pc |-> "fire", calls |-> disc.calls + 1, from |-> "none",
               ok |-> FALSE ]
  /\ UNCHANGED << fault, delay, chatRows, recorded >>
  /\ UNCHANGED machineVars
  /\ UNCHANGED storeVars
  /\ UNCHANGED apiVars
  /\ UNCHANGED << connVars, healthVars, queueVars >>
  /\ UNCHANGED ingestVars

\* Bridge.Disconnect: Fire(context.Background(), disconnect), an error is logged
DisconnectFire ==
  /\ disc.pc = "fire"
  /\ internalFire(TriggerDisconnect, TRUE, TRUE)
  /\ disc' = [ disc EXCEPT !.pc = "done", !.from = smState,
                           !.ok = CanFireCtx(smState, TriggerDisconnect) ]
  /\ UNCHANGED << clientConnected, fault, delay, chatRows, recorded >>
  /\ UNCHANGED apiVars
  /\ UNCHANGED << connVars, healthVars, queueVars >>
  /\ UNCHANGED ingestVars

(***************************************************************************)
(* internal/store/sqlite.go: the tables chats and messages by their keys.  *)
(* A chat is named by a number: 0 is the chat of every live message, the   *)
(* conversations of a history batch are 1, 2, ...                          *)
(***************************************************************************)
Chat == 0

\* SQLiteChatRepo.Upsert: INSERT ... ON CONFLICT(jid) DO UPDATE
Upsert(cs, jid, ok) == IF ok THEN cs \cup { jid } ELSE cs

\* the store.Chat persistMessage builds: JID, IsGroup and LastMessageTime, every
\* other field at its zero value
MessageRow ==
  [ name |-> "", unread |-> FALSE, archived |-> FALSE, pinned |-> FALSE,
    muted |-> FALSE ]

\* the store.Chat persistHistorySync builds from a conversation that has a name
\* and unread messages and is archived, pinned and muted
HistoryRow ==
  [ name |-> "name", unread |-> TRUE, archived |-> TRUE, pinned |-> TRUE,
    muted |-> TRUE ]

\* SQLiteChatRepo.Upsert on the values of the row: DO UPDATE SET name =
\* excluded.name, unread_count = excluded.unread_count, archived = ..., for all
UpsertRow(rows, jid, row, ok) ==
  IF ok
  THEN [ j \in DOMAIN rows \cup { jid } |-> IF j = jid THEN row ELSE rows[j] ]
  ELSE rows

\* SQLiteMessageRepo.Store: INSERT OR REPLACE, under the foreign key on chats(jid)
Store(rows, cs, row, ok) == IF ok /\ row[2] \in cs THEN rows \cup { row } ELSE rows

\* persistMessage: Chats.Upsert, Chats.UpdateLastMessage, Messages.Store; every
\* error is logged and nothing else
persistMessage(id, upsertOk, storeOk) ==
  /\ chats' = Upsert(chats, Chat, upsertOk)
  /\ chatRows' = UpsertRow(chatRows, Chat, MessageRow, upsertOk)
  /\ messages' = Store(messages, Upsert(chats, Chat, upsertOk), << id, Chat >>, storeOk)

(***************************************************************************)
(* internal/bridge/events.go: handleWhatsAppEvent, called by the client    *)
(* for every protocol event, once per handler the Bridge registered.  It   *)
(* persists messages and history batches and does nothing for any other    *)
(* event; it fires no trigger.  A pair-success gives the client a session. *)
(***************************************************************************)
ProtocolEvents ==
  { "qr", "pair_success", "connected", "disconnected", "logged_out",
    "temporary_ban", "message", "history_sync" }

handleWhatsAppEvent(e) ==
  /\ handlers > 0
  /\ delivered' = [ type |-> e, from |-> smState, fired |-> << >>,
                    persisted |-> IF e \in { "message", "history_sync" }
                                  THEN handlers ELSE 0 ]
  /\ session' = (session \/ e = "pair_success")
  /\ IF e = "message" THEN persistMessage(0, TRUE, TRUE)
     ELSE IF e = "history_sync"
          THEN /\ chats' = Upsert(chats, 1, TRUE)
               /\ chatRows' = UpsertRow(chatRows, 1, HistoryRow, TRUE)
               /\ messages' = Store(messages, Upsert(chats, 1, TRUE), << 1, 1 >>, TRUE)
          ELSE UNCHANGED << chats, chatRows, messages >>
  /\ UNCHANGED << dropped, messagesReceived, messagesSent, status, hsync >>
  /\ UNCHANGED << clientConnected, disc, fault, delay, recorded >>
  /\ UNCHANGED << conn, handlers >>
  /\ UNCHANGED machineVars
  /\ UNCHANGED storeVars
  /\ UNCHANGED apiVars
  /\ UNCHANGED << healthVars, queueVars >>

(***************************************************************************)
(* Bridge.Connect over a fresh Bridge.  Other callers move the lifecycle   *)
(* through the Bridge's machine while no Connect is under way; the client  *)
(* delivers its protocol events at any time, and does so fairly.           *)
(***************************************************************************)
InitConnect == Init

\* b.GetStateMachine().Fire(t) by another caller, between Connect calls
Lifecycle(t) ==
  /\ conn.pc \in { "idle", "done" }
  /\ Len(observed) < MaxLifecycle
  /\ CanFireCtx(smState, t)
  /\ FireCtx(t, TRUE, TRUE)

NextConnect ==
  \/ Connect
  \/ \E ok \in BOOLEAN, paired \in BOOLEAN, ctxErr \in BOOLEAN :
       ClientConnect(ok, paired, ctxErr)
  \/ ConnectLoggedIn
  \/ ConnectFire
  \/ \E e \in ProtocolEvents : handleWhatsAppEvent(e)
  \/ \E t \in Triggers : Lifecycle(t)

SpecConnect ==
  /\ InitConnect
  /\ [][NextConnect]_vars
  /\ WF_vars(ClientConnect(TRUE, TRUE, FALSE))
  /\ WF_vars(ConnectLoggedIn)
  /\ WF_vars(ConnectFire)
  /\ \A e \in ProtocolEvents : WF_vars(handleWhatsAppEvent(e))

\* the triggers a Connect call fired, with what each Fire returned and led to
Attempts(ts, tos) ==
  [ i \in 1..Len(ts) |-> [ trigger |-> ts[i], ok |-> TRUE, to |-> tos[i] ] ]

PairingStates == { StateQRPending, StateAuthenticating, StateSyncing }

C12_PairingLeadsToReady ==
  /\ [](conn.pc = "done" /\ conn.loggedIn = "no" =>
          conn.fired[Len(conn.fired)].to = StateQRPending)
  /\ (smState = StateQRPending /\ delivered.type = "pair_success")
       ~> (smState = StateReady \/ smState \notin PairingStates)

(***************************************************************************)
(* C13.  When the client's Connect fails and the caller's context is not   *)
(* cancelled, Bridge.Connect fires fatal_error, which takes connecting to  *)
(* fatal_error, and returns the error; when it fails with the context      *)
(* cancelled it fires nothing more, the state stays connecting, and it     *)
(* returns the error.                                                      *)
(***************************************************************************)
C13_ConnectError ==
  conn.pc = "done" /\ conn.client = "err" =>
    /\ conn.ret = "connect"
    /\ conn.clientCalls = 1
    /\ conn.loggedIn = "none"
    /\ IF conn.ctxErr
       THEN conn.fired = Attempts(<< "connect" >>, << "connecting" >>)
       ELSE conn.fired = Attempts(<< "connect", "fatal_error" >>,
                                  << "connecting", "fatal_error" >>)

\* C13 witness: the client failed with a live context and the machine is in fatal_error
C13_Witness ==
  /\ conn.pc = "done"
  /\ conn.client = "err"
  /\ ~conn.ctxErr
  /\ smState = StateFatalError
  /\ last.op = "Fire"
  /\ last.trigger = TriggerFatalError
  /\ last.from = StateConnecting

(***************************************************************************)
(* internal/bridge/bridge.go: the event queue.  NewBridge makes a buffered *)
(* channel and starts processEvents, which ranges over it; EmitEvent sends *)
(* without blocking and drops the event when the buffer is full; Stop      *)
(* fires shutdown, cancels the Bridge's context, closes the channel and    *)
(* waits for processEvents.  A queued event carries atStop: whether it was *)
(* in the buffer when Stop closed the channel.                             *)
(***************************************************************************)
EventTypes == { "message", "qr" }

\* events sent so far and not dropped
Emitted == Len(handled) + Len(events) + (IF handling.type = "none" THEN 0 ELSE 1)

\* Bridge.OnEvent
OnEvent ==
  /\ eventListeners < MaxEventListeners
  /\ eventListeners' = eventListeners + 1
  /\ UNCHANGED << events, closed, handling, handled, bridgeStop >>
  /\ UNCHANGED machineVars
  /\ UNCHANGED storeVars
  /\ UNCHANGED apiVars
  /\ UNCHANGED << connVars, healthVars >>
  /\ UNCHANGED ingestVars
  /\ UNCHANGED restVars

\* a full queue makes room by dropping its oldest event
SendDropOldest(q, evt) ==
  IF Len(q) < QueueCap THEN Append(q, evt) ELSE Append(Tail(q), evt)

\* select { case b.events <- evt: default: }: the queue after a non-blocking send
Send(q, evt) == IF Len(q) < QueueCap THEN Append(q, evt) ELSE q

\* the consumer takes the newest queued event
ReceiveNewest(q) == q[Len(q)]

\* for evt := range b.events: the event the consumer receives
Receive(q) == Head(q)

\* Bridge.EmitEvent: the event is queued, or dropped and logged when the queue is full.
\* An event is numbered by the EmitEvent call that sent it and carries the number of
\* listeners registered at that time.
EmitEvent(type) ==
  /\ ~closed
  /\ Emitted + dropped < MaxEvents
  /\ events' = Send(events, [ type |-> type, id |-> Emitted + dropped + 1,
                              seen |-> eventListeners, atStop |-> FALSE ])
  /\ dropped' = IF Len(events) < QueueCap THEN dropped ELSE dropped + 1
  /\ UNCHANGED << closed, eventListeners, handling, handled, bridgeStop >>
  /\ UNCHANGED << chats, messages, messagesReceived, messagesSent, status, hsync >>
  /\ UNCHANGED restVars
  /\ UNCHANGED machineVars
  /\ UNCHANGED storeVars
  /\ UNCHANGED apiVars
  /\ UNCHANGED << connVars, healthVars >>

\* what handleEvent has done with an event once the listeners returned
Handling(evt) ==
  [ type |-> evt.type, id |-> evt.id, seen |-> evt.seen, atStop |-> evt.atStop,
    listeners |-> eventListeners, calls |-> [ k \in 1..eventListeners |-> k ],
    write |-> evt.type = "message", ok |-> TRUE, stored |-> FALSE ]

\* processEvents receives the next event: handleEvent calls every listener and,
\* for a message, handleMessage starts its store write
processEvents ==
  /\ handling.type = "none"
  /\ events # << >>
  /\ events' = Tail(events)
  /\ IF Receive(events).type = "message"
     THEN /\ handling' = Handling(Receive(events))
          /\ handled' = handled
     ELSE /\ handling' = NoHandling
          /\ handled' = Append(handled, Handling(Receive(events)))
  /\ UNCHANGED << closed, eventListeners, bridgeStop >>
  /\ UNCHANGED machineVars
  /\ UNCHANGED storeVars
  /\ UNCHANGED apiVars
  /\ UNCHANGED << connVars, healthVars >>
  /\ UNCHANGED ingestVars
  /\ UNCHANGED restVars

\* handleMessage fires fatal_error when its store write fails
handleMessageFatal(storeOk) ==
  /\ handling.type # "none"
  /\ messages' = Store(messages, chats, << handling.id, Chat >>, storeOk)
  /\ handled' = Append(handled, [ handling EXCEPT
                                    !.ok = storeOk,
                                    !.stored = storeOk /\ Chat \in chats ])
  /\ handling' = NoHandling
  /\ IF storeOk /\ Chat \in chats
     THEN UNCHANGED machineVars /\ UNCHANGED storeVars
     ELSE internalFire(TriggerFatalError, TRUE, TRUE)
  /\ UNCHANGED << events, closed, eventListeners, bridgeStop >>
  /\ UNCHANGED << chats, dropped, messagesReceived, messagesSent, status, hsync >>
  /\ UNCHANGED restVars
  /\ UNCHANGED apiVars
  /\ UNCHANGED << connVars, healthVars >>

\* handleMessage: Messages.Store and Chats.UpdateLastMessage return; an error is
\* logged and nothing else
handleMessage(storeOk) ==
  /\ handling.type # "none"
  /\ messages' = Store(messages, chats, << handling.id, Chat >>, storeOk)
  /\ handled' = Append(handled, [ handling EXCEPT
                                    !.ok = storeOk,
                                    !.stored = storeOk /\ Chat \in chats ])
  /\ handling' = NoHandling
  /\ UNCHANGED << events, closed, eventListeners, bridgeStop >>
  /\ UNCHANGED << chats, dropped, messagesReceived, messagesSent, status, hsync >>
  /\ UNCHANGED restVars
  /\ UNCHANGED machineVars
  /\ UNCHANGED storeVars
  /\ UNCHANGED apiVars
  /\ UNCHANGED << connVars, healthVars >>

\* Bridge.Stop up to close(b.events): Fire(shutdown), b.cancel(), close
Stop ==
  /\ bridgeStop = "none"
  /\ internalFire(TriggerShutdown, TRUE, TRUE)
  /\ closed' = TRUE
  /\ events' = [ i \in 1..Len(events) |-> [ events[i] EXCEPT !.atStop = TRUE ] ]
  /\ bridgeStop' = "stopping"
  /\ UNCHANGED << eventListeners, handling, handled >>
  /\ UNCHANGED apiVars
  /\ UNCHANGED << connVars, healthVars >>
  /\ UNCHANGED ingestVars
  /\ UNCHANGED restVars

\* Bridge.Stop returns: b.wg.Wait() is over once processEvents left its range loop
StopReturn ==
  /\ bridgeStop = "stopping"
  /\ closed
  /\ events = << >>
  /\ handling.type = "none"
  /\ bridgeStop' = "returned"
  /\ UNCHANGED << events, closed, eventListeners, handling, handled >>
  /\ UNCHANGED machineVars
  /\ UNCHANGED storeVars
  /\ UNCHANGED apiVars
  /\ UNCHANGED << connVars, healthVars >>
  /\ UNCHANGED ingestVars
  /\ UNCHANGED restVars

InitQueue == Init

NextQueue ==
  \/ OnEvent
  \/ \E type \in EventTypes : EmitEvent(type)
  \/ processEvents
  \/ \E storeOk \in BOOLEAN : handleMessage(storeOk)
  \/ Stop
  \/ StopReturn

\* the consumer goroutine runs whenever it can
SpecQueue ==
  /\ InitQueue
  /\ [][NextQueue]_vars
  /\ WF_vars(processEvents)
  /\ WF_vars(\E storeOk \in BOOLEAN : handleMessage(storeOk))

\* everything handleEvent has worked on so far
Worked == handled \o (IF handling.type = "none" THEN << >> ELSE << handling >>)

(***************************************************************************)
(* C20 as stated.  An event that was still in the queue when Bridge.Stop   *)
(* began the shutdown is drained without being processed: no listener is   *)
(* invoked for it and no persistence write is started for it.              *)
(***************************************************************************)
C20_QueueDrainedUnprocessed ==
  \A i \in 1..Len(Worked) :
    Worked[i].atStop => Worked[i].listeners = 0 /\ ~Worked[i].write

(***************************************************************************)
(* internal/health/monitor.go.  retryCount is the Monitor's attempt        *)
(* counter, backoffStep the number of NextBackOff calls on its backoff     *)
(* since the last Reset, reconnectCount its count of reconnections.  Every *)
(* ScheduleReconnect call adds a record to timers: "refused" when the      *)
(* limit was exceeded, else the goroutine it started, which is "armed"     *)
(* while parked in its select, "elapsed" once the select took the timer    *)
(* case, "running" while the callback runs, "ran" after it, or "cancelled" *)
(* once the select took ctx.Done().  A goroutine parked in a select is     *)
(* woken by the first of its channels to become ready, and a goroutine     *)
(* that reaches the select after the cancellation finds only ctx.Done()    *)
(* ready, the backoff delay being positive.                                *)
(***************************************************************************)
\* IsMaxRetriesExceeded with >= for >
IsMaxRetriesExceededAtLimit == retryCount >= ReconnectMaxRetries

IsMaxRetriesExceeded == retryCount > ReconnectMaxRetries

Timer(st) == [ st |-> st, counted |-> 0, calls |-> 0, invokedIn |-> "none" ]

\* the goroutines that have not finished
Pending == { i \in 1..Len(timers) : timers[i].st \in { "armed", "elapsed", "running" } }

\* backoff: incrementCurrentInterval, with Multiplier = 1.5 and MaxInterval =
\* cfg.ReconnectMaxDelay
IncrementCurrentInterval(c) ==
  IF 3 * c >= 2 * ReconnectMaxDelay THEN ReconnectMaxDelay ELSE (3 * c) \div 2

\* backoff: currentInterval after n NextBackOff calls since Reset, which sets it to
\* InitialInterval = cfg.ReconnectBaseDelay
RECURSIVE CurrentInterval(_)
CurrentInterval(n) ==
  IF n = 0 THEN ReconnectBaseDelay ELSE IncrementCurrentInterval(CurrentInterval(n - 1))

\* backoff: getRandomValueFromInterval with RandomizationFactor = 0.5: every
\* duration from c - c/2 to c + c/2, whatever rand.Float64() gives
RandomValuesFromInterval(c) == (c \div 2)..((3 * c + 1) \div 2)

\* backoff: what NextBackOff may return at the n-th call since Reset
NextBackOff(n) == RandomValuesFromInterval(CurrentInterval(n))

\* Monitor.GetNextReconnectDelay
GetNextReconnectDelay ==
  /\ retryCount <= ReconnectMaxRetries
  /\ retryCount' = retryCount + 1
  /\ backoffStep' = backoffStep + 1
  /\ delay' \in NextBackOff(backoffStep)
  /\ UNCHANGED << reconnectCount, timers, monitorStop >>
  /\ UNCHANGED machineVars
  /\ UNCHANGED storeVars
  /\ UNCHANGED apiVars
  /\ UNCHANGED << connVars, queueVars >>
  /\ UNCHANGED ingestVars
  /\ UNCHANGED << clientConnected, disc, fault, chatRows, recorded >>

\* the Monitor's backoff cursor: its attempt counter and its backoff's position
Cursor == [ retryCount |-> retryCount, backoffStep |-> backoffStep ]

\* a reset that takes the backoff back by one interval only
ResetOneStep(m) ==
  [ retryCount |-> 0,
    backoffStep |-> IF m.backoffStep > 0 THEN m.backoffStep - 1 ELSE 0 ]

\* reconnectBackoff.Reset() and retryCount = 0
Reset(m) == [ retryCount |-> 0, backoffStep |-> 0 ]

\* Monitor.ResetReconnectBackoff, also what OnConnectionRestored does
ResetReconnectBackoff ==
  /\ backoffStep' = Reset(Cursor).backoffStep
  /\ retryCount' = Reset(Cursor).retryCount
  /\ UNCHANGED << reconnectCount, timers, monitorStop >>
  /\ UNCHANGED machineVars
  /\ UNCHANGED storeVars
  /\ UNCHANGED apiVars
  /\ UNCHANGED << connVars, queueVars >>
  /\ UNCHANGED ingestVars
  /\ delay' = 0
  /\ UNCHANGED << clientConnected, disc, fault, chatRows, recorded >>

\* Monitor.ScheduleReconnect: log and return when the limit is exceeded, else
\* compute the delay and start the goroutine that waits for it
ScheduleReconnect ==
  /\ Len(timers) < MaxScheduled
  /\ IF IsMaxRetriesExceeded
     THEN /\ timers' = Append(timers, Timer("refused"))
          /\ UNCHANGED << retryCount, backoffStep, delay >>
     ELSE /\ retryCount' = retryCount + 1
          /\ backoffStep' = backoffStep + 1
          /\ delay' \in NextBackOff(backoffStep)
          /\ timers' = Append(timers, Timer(IF monitorStop = "none" THEN "armed"
                                            ELSE "cancelled"))
  /\ UNCHANGED << reconnectCount, monitorStop >>
  /\ UNCHANGED machineVars
  /\ UNCHANGED storeVars
  /\ UNCHANGED apiVars
  /\ UNCHANGED << connVars, queueVars >>
  /\ UNCHANGED ingestVars
  /\ UNCHANGED << clientConnected, disc, fault, chatRows, recorded >>

\* case <-time.After(delay): the delay of goroutine i elapses
TimerElapsed(i) ==
  /\ i \in 1..Len(timers)
  /\ timers[i].st = "armed"
  /\ timers' = [ timers EXCEPT ![i].st = "elapsed" ]
  /\ UNCHANGED << retryCount, backoffStep, reconnectCount, monitorStop >>
  /\ UNCHANGED machineVars
  /\ UNCHANGED storeVars
  /\ UNCHANGED apiVars
  /\ UNCHANGED << connVars, queueVars >>
  /\ UNCHANGED ingestVars
  /\ UNCHANGED restVars

\* m.IncrementReconnectCount(); callback() is entered
ReconnectCallback(i) ==
  /\ i \in 1..Len(timers)
  /\ timers[i].st = "elapsed"
  /\ reconnectCount' = reconnectCount + 1
  /\ timers' = [ timers EXCEPT ![i].st = "running", ![i].counted = @ + 1,
                               ![i].calls = @ + 1, ![i].invokedIn = smState ]
  /\ UNCHANGED << retryCount, backoffStep, monitorStop >>
  /\ UNCHANGED machineVars
  /\ UNCHANGED storeVars
  /\ UNCHANGED apiVars
  /\ UNCHANGED << connVars, queueVars >>
  /\ UNCHANGED ingestVars
  /\ UNCHANGED restVars

\* callback() returns and the goroutine ends (wg.Done)
ReconnectCallbackReturn(i) ==
  /\ i \in 1..Len(timers)
  /\ timers[i].st = "running"
  /\ timers' = [ timers EXCEPT ![i].st = "ran" ]
  /\ UNCHANGED << retryCount, backoffStep, reconnectCount, monitorStop >>
  /\ UNCHANGED machineVars
  /\ UNCHANGED storeVars
  /\ UNCHANGED apiVars
  /\ UNCHANGED << connVars, queueVars >>
  /\ UNCHANGED ingestVars
  /\ UNCHANGED restVars

\* Monitor.Stop returns at once, without m.wg.Wait()
MonitorStopReturnNoWait ==
  /\ monitorStop = "cancelled"
  /\ monitorStop' = "returned"
  /\ UNCHANGED << retryCount, backoffStep, reconnectCount, timers >>
  /\ UNCHANGED machineVars
  /\ UNCHANGED storeVars
  /\ UNCHANGED apiVars
  /\ UNCHANGED << connVars, queueVars >>
  /\ UNCHANGED ingestVars
  /\ UNCHANGED restVars

\* Monitor.Stop: m.cancel() wakes every goroutine parked in its select
MonitorStop ==
  /\ monitorStop = "none"
  /\ monitorStop' = "cancelled"
  /\ timers' = [ i \in 1..Len(timers) |->
                   IF timers[i].st = "armed"
                   THEN [ timers[i] EXCEPT !.st = "cancelled" ]
                   ELSE timers[i] ]
  /\ UNCHANGED << retryCount, backoffStep, reconnectCount >>
  /\ UNCHANGED machineVars
  /\ UNCHANGED storeVars
  /\ UNCHANGED apiVars
  /\ UNCHANGED << connVars, queueVars >>
  /\ UNCHANGED ingestVars
  /\ UNCHANGED restVars

\* Monitor.Stop returns: m.wg.Wait() is over once every goroutine has ended
MonitorStopReturn ==
  /\ monitorStop = "cancelled"
  /\ Pending = { }
  /\ monitorStop' = "returned"
  /\ UNCHANGED << retryCount, backoffStep, reconnectCount, timers >>
  /\ UNCHANGED machineVars
  /\ UNCHANGED storeVars
  /\ UNCHANGED apiVars
  /\ UNCHANGED << connVars, queueVars >>
  /\ UNCHANGED ingestVars
  /\ UNCHANGED restVars

(***************************************************************************)
(* The Monitor next to the Bridge whose machine it was given (main builds  *)
(* both): the machine goes through the connection and reconnection         *)
(* triggers, the Monitor's methods are called in any order, and the Bridge *)
(* and the Monitor are each stopped once.                                  *)
(***************************************************************************)
ReconnectTriggers ==
  { TriggerConnect, TriggerAuthenticated, TriggerSyncComplete,
    TriggerConnectionLost, TriggerReconnected }

Reconnects(t) ==
  /\ Len(observed) < MaxHealthFires
  /\ CanFireCtx(smState, t)
  /\ FireCtx(t, TRUE, TRUE)

InitHealth == Init

NextHealth ==
  \/ \E t \in ReconnectTriggers : Reconnects(t)
  \/ GetNextReconnectDelay
  \/ ResetReconnectBackoff
  \/ Len(timers) < MaxTimers /\ ScheduleReconnect
  \/ \E i \in 1..MaxTimers : TimerElapsed(i)
  \/ \E i \in 1..MaxTimers : ReconnectCallback(i)
  \/ \E i \in 1..MaxTimers : ReconnectCallbackReturn(i)
  \/ MonitorStop
  \/ MonitorStopReturn
  \/ Stop
  \/ StopReturn

SpecHealth == InitHealth /\ [][NextHealth]_vars

(***************************************************************************)
(* The Monitor on its own, its methods called in any order.  A goroutine   *)
(* whose select took the timer case goes on to the callback, and the       *)
(* callback returns.                                                       *)
(***************************************************************************)
InitMonitor == Init

NextMonitor ==
  \/ GetNextReconnectDelay
  \/ ResetReconnectBackoff
  \/ Len(timers) < MaxTimers /\ ScheduleReconnect
  \/ \E i \in 1..MaxTimers : TimerElapsed(i)
  \/ \E i \in 1..MaxTimers : ReconnectCallback(i)
  \/ \E i \in 1..MaxTimers : ReconnectCallbackReturn(i)
  \/ MonitorStop
  \/ MonitorStopReturn

SpecMonitor ==
  /\ InitMonitor
  /\ [][NextMonitor]_vars
  /\ \A i \in 1..MaxTimers :
       WF_vars(ReconnectCallback(i)) /\ WF_vars(ReconnectCallbackReturn(i))

(***************************************************************************)
(* C14 as stated.  Whenever the machine enters ready the Monitor's backoff *)
(* is reset: right after a step that takes the machine from another state  *)
(* into ready the attempt count is zero and the backoff is at its base     *)
(* interval.                                                               *)
(***************************************************************************)
C14_ReadyResetsBackoff ==
  [][smState # StateReady /\ smState' = StateReady =>
       retryCount' = 0 /\ backoffStep' = 0]_vars

(***************************************************************************)
(* C15.  The attempt counter grows by exactly one with every delay         *)
(* computation and is the number of delay computations since the last      *)
(* reset; IsMaxRetriesExceeded is true exactly when that number is greater *)
(* than ReconnectMaxRetries, so it is false after ReconnectMaxRetries      *)
(* computations, true after one more, and false right after a reset.       *)
(***************************************************************************)
C15_RetryCounter ==
  /\ [](retryCount = backoffStep)
  /\ [](IsMaxRetriesExceeded <=> backoffStep > ReconnectMaxRetries)
  /\ [][backoffStep' # backoffStep =>
          \/ backoffStep' = backoffStep + 1 /\ retryCount' = retryCount + 1
          \/ backoffStep' = 0 /\ retryCount' = 0 /\ ~IsMaxRetriesExceeded']_vars

\* C15 witness: one delay computation more than ReconnectMaxRetries, limit exceeded
C15_Witness ==
  /\ backoffStep = ReconnectMaxRetries + 1
  /\ retryCount = ReconnectMaxRetries + 1
  /\ IsMaxRetriesExceeded

\* a step in which ScheduleReconnect found the retry limit exceeded
Refusal ==
  /\ Len(timers') = Len(timers) + 1
  /\ timers'[Len(timers')].st = "refused"

(***************************************************************************)
(* C16 as stated.  A reconnect request made while the retry limit is       *)
(* exceeded fires fatal_error: after the ScheduleReconnect call the        *)
(* machine is in fatal_error.                                              *)
(***************************************************************************)
C16_ExhaustedIsFatal == [][Refusal => smState' = StateFatalError]_vars

(***************************************************************************)
(* C17 as stated.  At most one reconnect timer is outstanding at any time: *)
(* a ScheduleReconnect call cancels the timer of an earlier call that is   *)
(* still pending.                                                          *)
(***************************************************************************)
C17_OneTimerOutstanding ==
  Cardinality({ i \in 1..Len(timers) : timers[i].st = "armed" }) <= 1

(***************************************************************************)
(* C18.  Every ScheduleReconnect call that arms a timer invokes its        *)
(* callback at most once: once, after incrementing the reconnect count,    *)
(* when the delay elapses before Monitor.Stop cancels, and never when the  *)
(* cancellation comes first; when Monitor.Stop has returned no callback is *)
(* running and none runs afterwards.                                       *)
(***************************************************************************)
C18_CallbackAtMostOnce ==
  /\ [](\A i \in 1..Len(timers) :
          /\ timers[i].calls <= 1
          /\ timers[i].calls = timers[i].counted
          /\ timers[i].calls = 1 <=> timers[i].st \in { "running", "ran" }
          /\ timers[i].st = "armed" => monitorStop = "none")
  /\ [](reconnectCount
          = Cardinality({ i \in 1..Len(timers) : timers[i].counted = 1 }))
  /\ [](monitorStop = "returned" => Pending = { })
  /\ [][\A i \in 1..Len(timers) :
          /\ timers[i].st = "cancelled" => timers'[i] = timers[i]
          /\ monitorStop = "returned" => timers'[i] = timers[i]]_vars
  /\ [][monitorStop = "returned" /\ Len(timers') > Len(timers) =>
          timers'[Len(timers')].st \in { "cancelled", "refused" }]_vars
  /\ \A i \in 1..MaxTimers :
       (i <= Len(timers) /\ timers[i].st = "elapsed")
         ~> (i <= Len(timers) /\ timers[i].st = "ran" /\ timers[i].calls = 1)

\* C18 witness: Monitor.Stop has returned; one callback ran, one timer was cancelled
C18_Witness ==
  /\ monitorStop = "returned"
  /\ \E i \in 1..Len(timers) : timers[i].st = "ran" /\ timers[i].calls = 1
  /\ \E i \in 1..Len(timers) : timers[i].st = "cancelled" /\ timers[i].calls = 0
  /\ reconnectCount = 1

(***************************************************************************)
(* C19 as stated.  Bridge.Stop cancels any outstanding reconnect timer:    *)
(* once the machine is in shutting_down no reconnect callback is invoked.  *)
(***************************************************************************)
C19_ShutdownCancelsTimers ==
  \A i \in 1..Len(timers) : timers[i].invokedIn # StateShuttingDown

\* the accepted events in the order the consumer takes them: worked on, then queued
Accepted == Worked \o events

(***************************************************************************)
(* C21.  The events EmitEvent accepted are handled by the one consumer,    *)
(* one at a time and in the order they were accepted, each exactly once:   *)
(* the events handled so far followed by the ones still queued are in the  *)
(* order of their EmitEvent calls, without a repetition.  For each handled *)
(* event the registered listeners were called once each, in the order of   *)
(* their registration, every listener registered before the event was      *)
(* accepted among them.                                                    *)
(***************************************************************************)
C21_HandledInOrder ==
  /\ \A i \in 1..Len(Accepted) : \A j \in 1..Len(Accepted) :
       i < j => Accepted[i].id < Accepted[j].id
  /\ Len(Accepted) + dropped <= MaxEvents
  /\ \A i \in 1..Len(Accepted) : Accepted[i].id <= Len(Accepted) + dropped
  /\ \A i \in 1..Len(Worked) :
       /\ Worked[i].calls = [ k \in 1..Len(Worked[i].calls) |-> k ]
       /\ Worked[i].seen <= Len(Worked[i].calls)
       /\ Len(Worked[i].calls) <= eventListeners

\* C21 witness: three events handled in order, the last one by two listeners
C21_Witness ==
  /\ Len(handled) = 3
  /\ handled[1].id = 1 /\ handled[2].id = 2 /\ handled[3].id = 3
  /\ handled[3].calls = << 1, 2 >>
  /\ handled[1].calls = << >>

(***************************************************************************)
(* C22.  The queue never holds more events than its capacity.  An          *)
(* EmitEvent call made while the queue is full returns after dropping the  *)
(* event it was given: the queue is exactly as it was.  A call made while  *)
(* there is room appends its event behind the ones already queued.         *)
(***************************************************************************)
C22_FullQueueDropsNewest ==
  /\ [](Len(events) <= QueueCap)
  /\ [][dropped' # dropped =>
          /\ dropped' = dropped + 1
          /\ Len(events) = QueueCap
          /\ events' = events]_vars
  /\ [][Len(events') > Len(events) =>
          /\ Len(events) < QueueCap
          /\ dropped' = dropped
          /\ events' = Append(events, events'[Len(events')])]_vars

\* C22 witness: an event was dropped and the queue still holds the two older ones
C22_Witness ==
  /\ dropped = 1
  /\ Len(events) = QueueCap
  /\ events[1].id = 1

(***************************************************************************)
(* C23 as stated.  The callback the protocol client runs only enqueues: a  *)
(* message or a history batch it delivers causes no store write on the     *)
(* client's thread, and is in the Bridge's queue or with its consumer.     *)
(***************************************************************************)
C23_CallbackOnlyEnqueues ==
  delivered.type \in { "message", "history_sync" } =>
    /\ delivered.persisted = 0
    /\ Emitted + dropped > 0

(***************************************************************************)
(* C25 as stated.  A lifecycle-relevant protocol event makes the Bridge    *)
(* fire its trigger: a disconnected event delivered in ready fires         *)
(* connection_lost, a logged-out event in ready fires logout, a ban signal *)
(* in ready fires ban_detected.                                            *)
(***************************************************************************)
C25_EventsFireTriggers ==
  delivered.from = StateReady =>
    /\ delivered.type = "disconnected" => delivered.fired = << TriggerConnectionLost >>
    /\ delivered.type = "logged_out" => delivered.fired = << TriggerLogout >>
    /\ delivered.type = "temporary_ban" => delivered.fired = << TriggerBanDetected >>

(***************************************************************************)
(* C26 as stated.  In a pairing attempt the first QR event moves the       *)
(* machine to qr_pending by firing qr_required, and a QR event received in *)
(* qr_pending fires nothing.                                               *)
(***************************************************************************)
C26_FirstQRFiresOnce ==
  delivered.type = "qr" =>
    IF delivered.from = StateQRPending
    THEN delivered.fired = << >>
    ELSE delivered.from = StateConnecting =>
           delivered.fired = << TriggerQRRequired >>

(***************************************************************************)
(* internal/bridge/events.go: what the Bridge's handler does on the        *)
(* protocol client's thread.  A message goes through persistMessage; a     *)
(* history batch goes through the two nested loops of persistHistorySync,  *)
(* one step for every conversation and every message looked at.  The       *)
(* conversations of a batch all carry the same number of messages; what is *)
(* wrong with an entry, or that its store write fails, is drawn when the   *)
(* loop reaches it.                                                        *)
(***************************************************************************)
ConvKinds == { "ok", "noid", "fail" }

MsgKinds == { "ok", "nomsg", "nokey", "noid", "fail" }

\* *events.Message delivered to handleWhatsAppEvent
MessageEvent(upsertOk, storeOk) ==
  /\ persistMessage(0, upsertOk, storeOk)
  /\ UNCHANGED << dropped, messagesReceived, messagesSent, status, hsync >>
  /\ UNCHANGED << clientConnected, disc, fault, delay, recorded >>
  /\ UNCHANGED machineVars
  /\ UNCHANGED storeVars
  /\ UNCHANGED apiVars
  /\ UNCHANGED << connVars, healthVars, queueVars >>

\* *events.HistorySync delivered to handleWhatsAppEvent, its batch being one
\* conversation with one message
HistorySyncEvent(upsertOk, storeOk) ==
  /\ chats' = Upsert(chats, 1, upsertOk)
  /\ chatRows' = UpsertRow(chatRows, 1, HistoryRow, upsertOk)
  /\ messages' = IF upsertOk THEN Store(messages, Upsert(chats, 1, upsertOk),
                                        << 1, 1 >>, storeOk)
                 ELSE messages
  /\ UNCHANGED << dropped, messagesReceived, messagesSent, status, hsync >>
  /\ UNCHANGED << clientConnected, disc, fault, delay, recorded >>
  /\ UNCHANGED machineVars
  /\ UNCHANGED storeVars
  /\ UNCHANGED apiVars
  /\ UNCHANGED << connVars, healthVars, queueVars >>

\* *events.HistorySync delivered to handleWhatsAppEvent: persistHistorySync begins
persistHistorySync(nc, nm) ==
  /\ hsync.pc = "idle"
  /\ hsync' = [ NoHistorySync EXCEPT !.pc = "conv", !.convs = nc, !.msgs = nm ]
  /\ UNCHANGED << chats, messages, dropped, messagesReceived, messagesSent, status >>
  /\ UNCHANGED restVars
  /\ UNCHANGED machineVars
  /\ UNCHANGED storeVars
  /\ UNCHANGED apiVars
  /\ UNCHANGED << connVars, healthVars, queueVars >>

\* the handler returns at the first conversation it cannot use
ContinueReturns(h) == [ h EXCEPT !.pc = "done" ]

\* continue: on to the next conversation
Continue(h) == [ h EXCEPT !.pc = "conv" ]

\* for _, conv := range convs: the next conversation, skipped when its id is empty
\* or its Chats.Upsert fails
historyConversation(kind) ==
  /\ hsync.pc = "conv"
  /\ hsync.conv < hsync.convs
  /\ chats' = Upsert(chats, hsync.conv + 1, kind = "ok")
  /\ chatRows' = UpsertRow(chatRows, hsync.conv + 1, HistoryRow, kind = "ok")
  /\ hsync' = IF kind = "ok"
              THEN [ hsync EXCEPT !.conv = @ + 1, !.msg = 0, !.upserted = @ + 1,
                                  !.last = kind,
                                  !.pc = IF hsync.msgs > 0 THEN "msgs" ELSE "conv" ]
              ELSE Continue([ hsync EXCEPT !.conv = @ + 1, !.last = kind ])
  /\ UNCHANGED << messages, dropped, messagesReceived, messagesSent, status >>
  /\ UNCHANGED << clientConnected, disc, fault, delay, recorded >>
  /\ UNCHANGED machineVars
  /\ UNCHANGED storeVars
  /\ UNCHANGED apiVars
  /\ UNCHANGED << connVars, healthVars, queueVars >>

\* for _, histMsg := range conv.GetMessages(): the next message, skipped when it
\* has no message, no key or an empty id; a failed Messages.Store is logged
historyMessage(kind) ==
  /\ hsync.pc = "msgs"
  /\ hsync.msg < hsync.msgs
  /\ messages' = IF kind \in { "ok", "fail" }
                 THEN Store(messages, chats, << hsync.msg + 1, hsync.conv >>,
                            kind = "ok")
                 ELSE messages
  /\ hsync' = [ hsync EXCEPT !.msg = @ + 1, !.looked = @ + 1, !.last = kind,
                             !.pc = IF hsync.msg + 1 = hsync.msgs THEN "conv"
                                    ELSE "msgs" ]
  /\ UNCHANGED << chats, dropped, messagesReceived, messagesSent, status >>
  /\ UNCHANGED restVars
  /\ UNCHANGED machineVars
  /\ UNCHANGED storeVars
  /\ UNCHANGED apiVars
  /\ UNCHANGED << connVars, healthVars, queueVars >>

\* persistHistorySync returns after the last conversation
historyReturn ==
  /\ hsync.pc = "conv"
  /\ hsync.conv = hsync.convs
  /\ hsync' = [ hsync EXCEPT !.pc = "done" ]
  /\ UNCHANGED << chats, messages, dropped, messagesReceived, messagesSent, status >>
  /\ UNCHANGED restVars
  /\ UNCHANGED machineVars
  /\ UNCHANGED storeVars
  /\ UNCHANGED apiVars
  /\ UNCHANGED << connVars, healthVars, queueVars >>

(***************************************************************************)
(* The two ways a message reaches the store, side by side: the protocol    *)
(* client's thread running the Bridge's handler, and the Bridge's queue    *)
(* with its consumer, both of which run whenever they can; meanwhile the   *)
(* lifecycle goes on.                                                      *)
(***************************************************************************)
InitIngest == Init

NextIngest ==
  \/ \E upsertOk \in BOOLEAN, storeOk \in BOOLEAN : MessageEvent(upsertOk, storeOk)
  \/ \E upsertOk \in BOOLEAN, storeOk \in BOOLEAN :
       HistorySyncEvent(upsertOk, storeOk)
  \/ EmitEvent("message")
  \/ processEvents
  \/ \E storeOk \in BOOLEAN : handleMessage(storeOk)
  \/ \E t \in { TriggerConnect, TriggerDisconnect } : Reconnects(t)

SpecIngest ==
  /\ InitIngest
  /\ [][NextIngest]_vars
  /\ WF_vars(processEvents)
  /\ WF_vars(\E storeOk \in BOOLEAN : handleMessage(storeOk))

(***************************************************************************)
(* One history batch delivered to the Bridge's handler, which works        *)
(* through it on the protocol client's thread without pausing; meanwhile   *)
(* the lifecycle goes on.                                                  *)
(***************************************************************************)
InitHistory == Init

NextHistory ==
  \/ \E nc \in 0..MaxConvs, nm \in 0..MaxHistMsgs : persistHistorySync(nc, nm)
  \/ \E kind \in ConvKinds : historyConversation(kind)
  \/ \E kind \in MsgKinds : historyMessage(kind)
  \/ historyReturn
  \/ \E t \in { TriggerConnect, TriggerDisconnect } : Reconnects(t)

SpecHistory ==
  /\ InitHistory
  /\ [][NextHistory]_vars
  /\ WF_vars(\E kind \in ConvKinds : historyConversation(kind))
  /\ WF_vars(\E kind \in MsgKinds : historyMessage(kind))
  /\ WF_vars(historyReturn)

\* the message events the consumer has handled, none of whose writes met a fault
HandledMessages ==
  { i \in 1..Len(handled) : handled[i].type = "message" /\ handled[i].ok }

(***************************************************************************)
(* C24 as stated.  A message event ingested while the consumer was not     *)
(* running is, once the consumer has handled it, in the store under its    *)
(* (id, chat) key, also when its chat was not in the store before, and has *)
(* caused one RecordMessageReceived call: messages-received is the number  *)
(* of messages handled.                                                    *)
(***************************************************************************)
C24_MessageStoredAndCounted ==
  /\ \A i \in HandledMessages : << handled[i].id, Chat >> \in messages
  /\ messagesReceived = Cardinality(HandledMessages)

\* a step of persistHistorySync over a conversation
ConvStep == hsync'.conv = hsync.conv + 1

\* a step of persistHistorySync over a message
MsgStep == hsync'.looked = hsync.looked + 1

(***************************************************************************)
(* C27.  persistHistorySync never aborts on a bad entry.  A conversation   *)
(* with an empty id, or whose chat upsert fails, is skipped with its       *)
(* messages and the loop goes on to the next conversation; a message       *)
(* without a message, without a key or with an empty id is skipped and the *)
(* loop goes on to the next message; a well-formed conversation is         *)
(* upserted and a well-formed message of it is stored, whatever came       *)
(* before it in the batch.  When the call returns every conversation of    *)
(* the batch has been visited, and every message of every upserted         *)
(* conversation; and the call does return.                                 *)
(***************************************************************************)
C27_HistoryBatchNeverAborts ==
  /\ [](hsync.pc = "done" =>
          /\ hsync.conv = hsync.convs
          /\ hsync.looked = hsync.upserted * hsync.msgs)
  /\ [][ConvStep =>
          /\ messages' = messages
          /\ hsync'.last = "ok" =>
               /\ chats' = chats \cup { hsync'.conv }
               /\ hsync'.pc = IF hsync.msgs > 0 THEN "msgs" ELSE "conv"
          /\ hsync'.last \in { "noid", "fail" } =>
               /\ chats' = chats
               /\ hsync'.pc = "conv"
               /\ hsync'.looked = hsync.looked]_vars
  /\ [][MsgStep =>
          /\ chats' = chats
          /\ hsync'.conv = hsync.conv
          /\ hsync'.last = "ok" =>
               messages' = messages \cup { << hsync'.msg, hsync.conv >> }
          /\ hsync'.last \in { "nomsg", "nokey", "noid", "fail" } =>
               messages' = messages
          /\ hsync'.pc = IF hsync'.msg = hsync.msgs THEN "conv" ELSE "msgs"]_vars
  /\ (hsync.pc \in { "conv", "msgs" }) ~> (hsync.pc = "done")

\* C27 witness: the first conversation was skipped, the second upserted; its first
\* message was skipped and its second stored
C27_Witness ==
  /\ hsync.pc = "done"
  /\ hsync.convs = 2 /\ hsync.msgs = 2
  /\ chats = { 2 }
  /\ messages = { << 2, 2 >> }

\* a step in which a store write of the ingest was attempted or an event handled
IngestStep ==
  \/ chats' # chats
  \/ messages' # messages
  \/ handled' # handled
  \/ handling' # handling

(***************************************************************************)
(* C28.  Handling a message or a history batch, a failing store write      *)
(* included, fires no trigger: the machine's state, the saved state and    *)
(* the transition log are the same before and after.  The consumer goes on *)
(* after a failed write: the event in hand is finished and the queue is    *)
(* emptied.                                                                *)
(***************************************************************************)
C28_WriteFailureLeavesLifecycle ==
  /\ [][IngestStep =>
          UNCHANGED << smState, savedState, transitions, observed, last >>]_vars
  /\ (handling.type # "none") ~> (handling.type = "none")
  /\ (events # << >>) ~> (events = << >>)

\* C28 witness: the write of the first queued message failed, the consumer handled
\* the next one, and the machine is where the lifecycle took it
C28_Witness ==
  /\ Len(handled) >= 2
  /\ ~handled[1].stored
  /\ handled[2].stored
  /\ smState = StateConnecting
  /\ transitions # << >>

(***************************************************************************)
(* internal/health/monitor.go, the snapshot.  status is the Status the     *)
(* last GetStatus call returned, status.calls the number of calls made.    *)
(***************************************************************************)
\* connected := currentState == state.StateReady, with syncing counted in
ConnectedOrSyncing(s) == s \in { StateReady, StateSyncing }

\* connected := currentState == state.StateReady
Connected(s) == s = StateReady

\* Monitor.GetStatus
GetStatus ==
  /\ status.calls < MaxSnapshots
  /\ status' = [ calls |-> status.calls + 1,
                 state |-> smState,
                 connected |-> Connected(smState),
                 reconnectCount |-> reconnectCount,
                 messagesReceived |-> messagesReceived,
                 messagesSent |-> messagesSent ]
  /\ UNCHANGED << chats, messages, dropped, messagesReceived, messagesSent, hsync >>
  /\ UNCHANGED restVars
  /\ UNCHANGED machineVars
  /\ UNCHANGED storeVars
  /\ UNCHANGED apiVars
  /\ UNCHANGED << connVars, healthVars, queueVars >>

\* an Add that stores the delta instead of adding it
AddStores(v, d) == d

\* atomic.Int64.Add
Add(v, d) == v + d

\* Monitor.RecordMessageReceived
RecordMessageReceived ==
  /\ recorded.received < MaxCounted
  /\ messagesReceived' = Add(messagesReceived, 1)
  /\ recorded' = [ recorded EXCEPT !.received = @ + 1 ]
  /\ UNCHANGED << chats, messages, dropped, messagesSent, status, hsync >>
  /\ UNCHANGED << clientConnected, disc, fault, delay, chatRows >>
  /\ UNCHANGED machineVars
  /\ UNCHANGED storeVars
  /\ UNCHANGED apiVars
  /\ UNCHANGED << connVars, healthVars, queueVars >>

\* Monitor.RecordMessageSent
RecordMessageSent ==
  /\ recorded.sent < MaxCounted
  /\ messagesSent' = Add(messagesSent, 1)
  /\ recorded' = [ recorded EXCEPT !.sent = @ + 1 ]
  /\ UNCHANGED << chats, messages, dropped, messagesReceived, status, hsync >>
  /\ UNCHANGED << clientConnected, disc, fault, delay, chatRows >>
  /\ UNCHANGED machineVars
  /\ UNCHANGED storeVars
  /\ UNCHANGED apiVars
  /\ UNCHANGED << connVars, healthVars, queueVars >>

\* Monitor.IncrementReconnectCount
IncrementReconnectCount ==
  /\ reconnectCount < MaxCounted
  /\ reconnectCount' = reconnectCount + 1
  /\ UNCHANGED << retryCount, backoffStep, timers, monitorStop >>
  /\ UNCHANGED machineVars
  /\ UNCHANGED storeVars
  /\ UNCHANGED apiVars
  /\ UNCHANGED << connVars, queueVars >>
  /\ UNCHANGED ingestVars
  /\ UNCHANGED restVars

InitStatus == Init

NextStatus ==
  \/ GetStatus
  \/ RecordMessageReceived
  \/ RecordMessageSent
  \/ IncrementReconnectCount
  \/ \E t \in ReconnectTriggers : Reconnects(t)

SpecStatus == InitStatus /\ [][NextStatus]_vars

(***************************************************************************)
(* C29.  Every GetStatus call computes its snapshot from the live data:    *)
(* the state it reports is the machine's state at the call, connected is   *)
(* true exactly when that state is ready, the counters are the Monitor's   *)
(* counters at the call; and the call changes neither the machine, the     *)
(* counters nor the store.                                                 *)
(***************************************************************************)
C29_SnapshotIsLive ==
  [][status'.calls # status.calls =>
       /\ status'.state = smState
       /\ status'.connected = (smState = StateReady)
       /\ status'.reconnectCount = reconnectCount
       /\ status'.messagesReceived = messagesReceived
       /\ status'.messagesSent = messagesSent
       /\ UNCHANGED << machineVars, storeVars, healthVars >>
       /\ UNCHANGED << chats, messages, messagesReceived, messagesSent >>]_vars

\* C29 witness: a second snapshot, taken in syncing, differs from what a snapshot
\* taken in ready would hold; the counters it reports were raised before it
C29_Witness ==
  /\ status.calls = 2
  /\ status.state = StateSyncing
  /\ ~status.connected
  /\ status.messagesReceived = 1
  /\ status.reconnectCount = 1

(***************************************************************************)
(* C30.  ResetReconnectBackoff is idempotent.  Whatever the cursor, one    *)
(* reset leaves attempt count zero and the backoff at its first interval,  *)
(* and a second reset leaves what the first one left, so what              *)
(* GetNextReconnectDelay and IsMaxRetriesExceeded go on from is the same;  *)
(* and the cursor only ever goes back by a reset.                          *)
(***************************************************************************)
C30_ResetIdempotent ==
  /\ [](/\ Reset(Reset(Cursor)) = Reset(Cursor)
        /\ Reset(Cursor).retryCount = 0
        /\ Reset(Cursor).backoffStep = 0)
  /\ [][retryCount' < retryCount \/ backoffStep' < backoffStep =>
          /\ Cursor' = Reset(Cursor)
          /\ Reset(Cursor') = Cursor']_vars

\* C30 witness: the cursor had advanced twice and has been reset
C30_Witness ==
  /\ Len(timers) >= 2
  /\ \A i \in 1..2 : timers[i].st # "refused"
  /\ Cursor = Reset(Cursor)

(***************************************************************************)
(* C40 as stated.  A capability tool call that failed because the Bridge   *)
(* was not in ready is answered NOT_READY with retry = true, also when the *)
(* state left ready between HandleTool's gate and the check of the         *)
(* capability method; it is never answered MESSAGE_FAILED or               *)
(* INTERNAL_ERROR.                                                         *)
(***************************************************************************)
C40_NotReadyAlwaysNotReady ==
  (/\ tool.pc = "idle"
   /\ tool.name \in ToolNames
   /\ requiresReady(tool.name)
   /\ tool.result.isError
   /\ \/ tool.seen # StateReady
      \/ op.err = "not_ready") =>
    /\ tool.result.code = "NOT_READY"
    /\ tool.result.retry

(***************************************************************************)
(* NewBridge over the store an earlier run left.  runMigrations inserts    *)
(* the bridge_state row with INSERT OR IGNORE, so the row of the earlier   *)
(* run stays, holding whatever state that run saved last; NewBridge makes  *)
(* a new machine, in disconnected, and reads nothing from the store.       *)
(* Every store write succeeds here.                                        *)
(***************************************************************************)
InitRestart ==
  /\ smState = StateDisconnected
  /\ callbacks = << "bridge" >>
  /\ stateListeners = 0
  /\ savedState \in States
  /\ transitions = << >>
  /\ observed = << >>
  /\ now = 0
  /\ storeFaults = 0
  /\ last = NoCall
  /\ bridgeAttached = TRUE
  /\ tool = NoTool
  /\ op = NoOp
  /\ InitRest

NextRestart == \E t \in Triggers : Reconnects(t)

SpecRestart == InitRestart /\ [][NextRestart]_vars

(***************************************************************************)
(* C38 as stated.  With no transition in progress and every store write    *)
(* succeeding, the state the store holds is the machine's current state,   *)
(* from the construction of the Bridge on, whatever an earlier run left in *)
(* the store.                                                              *)
(***************************************************************************)
C38_SavedStateIsCurrent == savedState = smState

\* a step in which GetNextReconnectDelay returned a delay
DelayReturned == backoffStep' = backoffStep + 1

(***************************************************************************)
(* C31 as stated.  Every delay GetNextReconnectDelay returns is greater    *)
(* than zero and at most ReconnectMaxDelay, and without a reset in between *)
(* a delay is not smaller than the one returned before it, until the       *)
(* maximum is reached.                                                     *)
(***************************************************************************)
C31_DelaysBoundedMonotone ==
  [][DelayReturned =>
       /\ delay' > 0
       /\ delay' <= ReconnectMaxDelay
       /\ (delay > 0 /\ delay < ReconnectMaxDelay) => delay' >= delay]_vars

(***************************************************************************)
(* The Monitor's counters under concurrent callers.  RecordMessageReceived *)
(* and RecordMessageSent are one atomic Add each, so the calls of any      *)
(* number of callers take effect one after the other in some order; the    *)
(* other Monitor operations run in between.                                *)
(***************************************************************************)
InitCounters == Init

NextCounters ==
  \/ RecordMessageReceived
  \/ RecordMessageSent
  \/ GetStatus
  \/ GetNextReconnectDelay
  \/ ResetReconnectBackoff

SpecCounters == InitCounters /\ [][NextCounters]_vars

(***************************************************************************)
(* C33.  The counters count exactly the recording calls: after m           *)
(* RecordMessageReceived and n RecordMessageSent calls, in any order and   *)
(* interleaved with anything else, messages-received is m and              *)
(* messages-sent is n, and a snapshot taken then shows these values; the   *)
(* counters never decrease, and a step of GetStatus,                       *)
(* GetNextReconnectDelay or ResetReconnectBackoff leaves them unchanged.   *)
(***************************************************************************)
C33_CountersCountCalls ==
  /\ [](/\ messagesReceived = recorded.received
        /\ messagesSent = recorded.sent)
  /\ [][/\ messagesReceived' >= messagesReceived
        /\ messagesSent' >= messagesSent]_vars
  /\ [][status'.calls # status.calls =>
          /\ status'.messagesReceived = recorded.received
          /\ status'.messagesSent = recorded.sent]_vars
  /\ [][(\/ status' # status
         \/ backoffStep' # backoffStep
         \/ retryCount' # retryCount) =>
          UNCHANGED << messagesReceived, messagesSent >>]_vars

\* C33 witness: two received and one sent recorded, delays computed and the
\* backoff reset in between, and the snapshot taken afterwards shows 2 and 1
C33_Witness ==
  /\ recorded = [ received |-> 2, sent |-> 1 ]
  /\ status.calls = 2
  /\ status.messagesReceived = 2
  /\ status.messagesSent = 1
  /\ backoffStep = 1

(***************************************************************************)
(* The rows of table chats.  A history batch names the chat that live      *)
(* messages arrive in: its conversation is upserted with the name, the     *)
(* unread count and the archived, pinned and muted flags the phone holds.  *)
(***************************************************************************)
\* persistHistorySync over a batch of one conversation, the chat of the live
\* messages, that carries no messages
HistoryChat(upsertOk) ==
  /\ chats' = Upsert(chats, Chat, upsertOk)
  /\ chatRows' = UpsertRow(chatRows, Chat, HistoryRow, upsertOk)
  /\ UNCHANGED << messages, dropped, messagesReceived, messagesSent, status, hsync >>
  /\ UNCHANGED << clientConnected, disc, fault, delay, recorded >>
  /\ UNCHANGED machineVars
  /\ UNCHANGED storeVars
  /\ UNCHANGED apiVars
  /\ UNCHANGED << connVars, healthVars, queueVars >>

InitChats == Init

NextChats ==
  \/ \E upsertOk \in BOOLEAN : HistoryChat(upsertOk)
  \/ \E upsertOk \in BOOLEAN, storeOk \in BOOLEAN : MessageEvent(upsertOk, storeOk)
  \/ \E upsertOk \in BOOLEAN, storeOk \in BOOLEAN :
       HistorySyncEvent(upsertOk, storeOk)
  \/ \E t \in ReconnectTriggers : Reconnects(t)

SpecChats == InitChats /\ [][NextChats]_vars

\* a step in which persistMessage wrote
MessagePersisted == << 0, Chat >> \in messages' /\ << 0, Chat >> \notin messages

(***************************************************************************)
(* C37 as stated.  Persisting an incoming message leaves, for a chat that  *)
(* is in the store already, the name, the unread count and the archived,   *)
(* pinned and muted flags of its row as they were.                         *)
(***************************************************************************)
C37_MessageKeepsChatRow ==
  [][(MessagePersisted /\ Chat \in DOMAIN chatRows) =>
       chatRows'[Chat] = chatRows[Chat]]_vars

(***************************************************************************)
(* Bridge.Disconnect, on a Bridge whose machine other callers move through *)
(* every state and whose Connect connects the client.                      *)
(***************************************************************************)
InitDisconnect == Init

NextDisconnect ==
  \/ DisconnectClient
  \/ DisconnectFire
  \/ Connect
  \/ \E ok \in BOOLEAN, ctxErr \in BOOLEAN : ClientConnect(ok, TRUE, ctxErr)
  \/ ConnectLoggedIn
  \/ ConnectFire
  \/ \E t \in Triggers : Reconnects(t)

SpecDisconnect == InitDisconnect /\ [][NextDisconnect]_vars

\* the states the claim names as permitting the disconnect trigger, and the others
DisconnectPermitted ==
  { StateConnecting, StateQRPending, StateAuthenticating, StateSyncing, StateReady,
    StateReconnecting, StateTemporaryBan }

DisconnectRefused ==
  { StateDisconnected, StateLoggedOut, StateSessionExpired, StateFatalError,
    StateShuttingDown }

(***************************************************************************)
(* C32.  Bridge.Disconnect disconnects the client whatever the state; its  *)
(* Fire(disconnect) sets the state to disconnected from connecting,        *)
(* qr_pending, authenticating, syncing, ready, reconnecting and            *)
(* temporary_ban, and from disconnected, logged_out, session_expired,      *)
(* fatal_error and shutting_down it leaves the state as it is and writes   *)
(* no transition record.                                                   *)
(***************************************************************************)
C32_DisconnectDisconnects ==
  /\ [][(disc'.pc = "fire" /\ disc.pc # "fire") => ~clientConnected']_vars
  /\ [][(disc.pc = "fire" /\ disc'.pc = "done") =>
          /\ smState \in DisconnectPermitted \cup DisconnectRefused
          /\ smState \in DisconnectPermitted =>
               /\ smState' = StateDisconnected
               /\ Len(transitions') = Len(transitions) + 1
          /\ smState \in DisconnectRefused =>
               /\ smState' = smState
               /\ transitions' = transitions
               /\ savedState' = savedState]_vars

\* a Disconnect in ready, with the client connected by Connect, has returned
C32_Witness ==
  /\ disc.pc = "done"
  /\ disc.ok
  /\ disc.from = StateReady
  /\ conn.client = "ok"
  /\ smState = StateDisconnected
  /\ ~clientConnected

(***************************************************************************)
(* The Bridge driven by its own operations only: one Connect call at a     *)
(* time (main starts one), Disconnect and Stop from other goroutines, the  *)
(* client's protocol events and the event queue.  Nothing else fires a     *)
(* trigger: main builds the client with StateMgr nil.                      *)
(***************************************************************************)
InitBridge == Init

NextBridge ==
  \/ Connect
  \/ \E ok \in BOOLEAN, paired \in BOOLEAN, ctxErr \in BOOLEAN :
       ClientConnect(ok, paired, ctxErr)
  \/ ConnectLoggedIn
  \/ ConnectFire
  \/ DisconnectClient
  \/ DisconnectFire
  \/ handleWhatsAppEvent("logged_out")
  \/ Emitted + dropped < MaxBridgeEvents /\ EmitEvent("message")
  \/ processEvents
  \/ \E storeOk \in BOOLEAN : handleMessage(storeOk)
  \/ Stop
  \/ StopReturn

SpecBridge == InitBridge /\ [][NextBridge]_vars

(***************************************************************************)
(* C35 as stated.  Once a Connect and a Disconnect or a Stop have both     *)
(* returned, state disconnected or shutting_down implies that the client   *)
(* is not connected, and state ready implies that it is.                   *)
(***************************************************************************)
C35_StateAndClientAgree ==
  (/\ conn.pc = "done"
   /\ disc.pc # "fire"
   /\ bridgeStop # "stopping"
   /\ disc.pc = "done" \/ bridgeStop = "returned") =>
    /\ smState \in { StateDisconnected, StateShuttingDown } => ~clientConnected
    /\ smState = StateReady => clientConnected

\* the triggers Connect, Disconnect and Stop fire
BridgeTriggers ==
  { TriggerConnect, TriggerAuthenticated, TriggerSyncComplete, TriggerQRRequired,
    TriggerFatalError, TriggerDisconnect, TriggerShutdown }

EmitEventClosed(type) ==
  /\ closed
  /\ fault' = "send on closed channel"
  /\ UNCHANGED << clientConnected, disc, delay, chatRows, recorded >>
  /\ UNCHANGED machineVars
  /\ UNCHANGED storeVars
  /\ UNCHANGED apiVars
  /\ UNCHANGED << connVars, healthVars, queueVars >>
  /\ UNCHANGED ingestVars

\* Bridge.Stop called again: Fire(shutdown), b.cancel(), close(b.events)
StopAgain ==
  /\ bridgeStop # "none"
  /\ internalFire(TriggerShutdown, TRUE, TRUE)
  /\ fault' = "close of closed channel"
  /\ UNCHANGED << clientConnected, disc, delay, chatRows, recorded >>
  /\ UNCHANGED apiVars
  /\ UNCHANGED << connVars, healthVars, queueVars >>
  /\ UNCHANGED ingestVars

InitStop == Init

NextStop ==
  /\ fault = "none"
  /\ \/ OnEvent
     \/ \E type \in EventTypes : EmitEvent(type)
     \/ processEvents
     \/ \E storeOk \in BOOLEAN : handleMessage(storeOk)
     \/ Stop
     \/ StopReturn
     \/ \E type \in EventTypes : EmitEventClosed(type)
     \/ StopAgain

SpecStop == InitStop /\ [][NextStop]_vars

(***************************************************************************)
(* C34 as stated.  No Bridge operation after Stop causes a runtime fault:  *)
(* an EmitEvent after the queue was closed drops the event, a second Stop  *)
(* does nothing.                                                           *)
(***************************************************************************)
C34_NoFaultAfterStop == fault = "none"

(***************************************************************************)
(* ScheduleReconnect called again and again, with resets in between: no    *)
(* other caller computes a delay.                                          *)
(***************************************************************************)
InitSchedule == Init

NextSchedule ==
  \/ ScheduleReconnect
  \/ ResetReconnectBackoff
  \/ \E i \in 1..MaxScheduled : TimerElapsed(i)
  \/ MonitorStop

SpecSchedule == InitSchedule /\ [][NextSchedule]_vars

\* a step of ScheduleReconnect: it armed a timer or refused to
Scheduled == Len(timers') = Len(timers) + 1

====
